---- MODULE Spec2Model ----
(***************************************************************************)
(* Model of the crawl engine of catchmynews:                               *)
(*   backend/app/services/scraper.py  (class WebScraper)                   *)
(* A crawl session is one call of WebScraper.scrape_website.  The          *)
(* recursion of _scrape_recursive is an explicit stack of frames; the two  *)
(* places where the coroutine really suspends (asyncio.sleep in            *)
(* _apply_rate_limit, client.get in _fetch_url) are the frame phases       *)
(* "sleep" and "fetch", and they are the only points at which another      *)
(* session of the same event loop can run.                                 *)
(***************************************************************************)
EXTENDS Integers, Sequences, FiniteSets, TLC

VARIABLES
    site,               \* the web: URL -> page served for it
    visited_urls,       \* WebScraper.visited_urls, per scraper instance
    rate_limit_delays,  \* keys of WebScraper.rate_limit_delays, per instance
    pc,                 \* per session: "idle" | "running" | "done" | "raised"
    inst,               \* per session: the WebScraper instance it runs on
    args,               \* per session: [url, max_depth, max_pages] after defaults
    base_domain,        \* per session: _extract_domain(url) of the seed
    stack,              \* per session: frames of _scrape_recursive, top last
    articles,           \* per session: the local list `articles`
    result,             \* per session: what scrape_website gave its caller
    fetchLog,           \* history: every client.get issued, in global order
    expansions,         \* history, per session: every link collection
    call,               \* one call of a pure helper: its argument and its outcome
    store,              \* the articles table and the session that writes to it
    task,               \* one run of scrape_url_task: its position and its locals
    app                 \* the deployment around the tasks: queue, tables, cache

crawlVars == <<site, visited_urls, rate_limit_delays, pc, inst, args, base_domain,
               stack, articles, result, fetchLog, expansions>>

vars == <<crawlVars, call, store, task, app>>

----------------------------------------------------------------------------
(* Bounds of the model *)

MaxDepthBound == 2
MaxPagesBound == 2

(* Program constants *)

MAX_SCRAPING_DEPTH == 3
MAX_PAGES_PER_DOMAIN == 50
RATE_LIMIT_DELAY == 1
LinkCap == 10
MinContentLen == 100

Sessions == {"s1", "s2"}
Solo == "s1"
Instances == {"w1", "w2"}

----------------------------------------------------------------------------
(* URLs, hrefs and pages *)

HostA == "a.com"
HostB == "b.org"

Url(h, p) == [host |-> h, path |-> p]

RootA == Url(HostA, "/")
RootB == Url(HostB, "/")
URLs == {Url(HostA, p) : p \in {"/", "/1", "/2", "/3"}} \cup {RootB}
Seeds == {RootA, RootB}

Abs(h, p) == [kind |-> "abs", host |-> h, path |-> p]
Rel(p) == [kind |-> "rel", host |-> "", path |-> p]
\* an href with an unbalanced "[" in its authority, e.g. "http://[bad"
BadHref == [kind |-> "bad", host |-> "", path |-> ""]

\* urljoin(url, href) raises ValueError ("Invalid IPv6 URL") on such an href
UrlJoinRaises(href) == href.kind = "bad"

\* urljoin(url, href): an absolute href replaces the base, a relative one
\* keeps the base's scheme and authority
UrlJoin(base, href) ==
    IF href.kind = "abs" THEN Url(href.host, href.path)
    ELSE Url(base.host, href.path)

\* urlparse(url).netloc
ExtractDomain(url) == url.host

IsSameDomainAnyHost(url, domain) == TRUE

IsSameDomain(url, domain) == ExtractDomain(url) = domain

Page(st, t, n, hs) == [status |-> st, title |-> t, bodyLen |-> n, hrefs |-> hs]

NoLinks == <<>>
TwoLinks == <<Rel("/1"), Rel("/2")>>
BackLinks == <<Abs(HostA, "/"), Rel("/2"), Abs(HostB, "/"), Rel("/2")>>
BrokenLinks == <<Rel("/1"), BadHref>>
\* 15 same-host anchors: ten that alternate /1 and /2, then five to /3
DenseLinks == [k \in 1..15 |-> IF k > 10 THEN Rel("/3")
                               ELSE IF k % 2 = 1 THEN Rel("/1") ELSE Rel("/2")]

ErrorPage == Page("error", "", 0, NoLinks)
NonHtmlPage == Page("nonhtml", "", 0, NoLinks)
NotModifiedPage == Page("notmodified", "", 0, NoLinks)
LeafPage == Page("ok", "T", 101, NoLinks)

OkBodies == {<<"T", 101>>, <<"T", 100>>, <<"", 101>>}
LinkLists == {NoLinks, TwoLinks, BackLinks, BrokenLinks, DenseLinks}

RootPages == {Page("ok", b[1], b[2], hs) : b \in OkBodies, hs \in LinkLists}
                \cup {ErrorPage}

InnerPages == {Page("ok", "T", 101, hs) : hs \in LinkLists}
                 \cup {Page("ok", "T", 100, TwoLinks),
                       ErrorPage, NonHtmlPage, NotModifiedPage}

Sites == { s \in [URLs -> RootPages \cup InnerPages \cup {LeafPage}] :
             /\ s[RootA] \in RootPages
             /\ s[Url(HostA, "/1")] \in InnerPages
             /\ s[Url(HostA, "/2")] \in InnerPages
             /\ s[Url(HostA, "/3")] = LeafPage
             /\ s[RootB] = LeafPage }

----------------------------------------------------------------------------
(* Pure helpers of the traversal *)

None == <<>>
Some(x) == <<x>>

OrDefault(opt, d) == IF opt = None THEN d ELSE opt[1]

FirstNUncapped(seq, n) == seq

FirstN(seq, n) == SubSeq(seq, 1, IF Len(seq) < n THEN Len(seq) ELSE n)

\* _fetch_url: the response, or None when the request raised, the status was
\* not a success (raise_for_status; this includes 304) or the content type
\* is not text/html
FetchUrl(page) == IF page.status = "ok" THEN Some(page) ELSE None

ExtractArticleAtLeast(url, page) ==
    IF page.title # "" /\ page.bodyLen >= MinContentLen
    THEN Some([url |-> url, title |-> page.title, bodyLen |-> page.bodyLen])
    ELSE None

\* _extract_article: a dict when a title was found and the content is longer
\* than 100 characters, else None
ExtractArticle(url, page) ==
    IF page.title # "" /\ page.bodyLen > MinContentLen
    THEN Some([url |-> url, title |-> page.title, bodyLen |-> page.bodyLen])
    ELSE None

VisitedNever(url, visited) == FALSE

\* `url in self.visited_urls`
Visited(url, visited) == url \in visited

PageBudgetIgnored(arts, max_pages) == FALSE

PageBudgetOffByOne(arts, max_pages) == Len(arts) > max_pages

\* `len(articles) >= max_pages`
PageBudgetSpent(arts, max_pages) == Len(arts) >= max_pages

\* `current_depth > max_depth or len(articles) >= max_pages`
LimitsReached(depth, max_depth, arts, max_pages) ==
    depth > max_depth \/ PageBudgetSpent(arts, max_pages)

MayFollowLinksInclusive(depth, max_depth) == depth <= max_depth

\* `if current_depth < max_depth:`
MayFollowLinks(depth, max_depth) == depth < max_depth

NeverDelay(domain, delays) == FALSE

\* `domain in self.rate_limit_delays`
NeedsDelay(domain, delays) == domain \in delays

\* the loop over soup.find_all('a', href=True) that builds internal_links
RECURSIVE InternalLinks(_, _, _, _)
InternalLinks(url, hrefs, domain, visited) ==
    IF hrefs = <<>> THEN <<>>
    ELSE LET absolute_url == UrlJoin(url, Head(hrefs))
             rest == InternalLinks(url, Tail(hrefs), domain, visited)
         IN IF IsSameDomain(absolute_url, domain) /\ ~Visited(absolute_url, visited)
            THEN <<absolute_url>> \o rest
            ELSE rest

AnyHrefRaises(hrefs) == \E k \in 1..Len(hrefs) : UrlJoinRaises(hrefs[k])

\* the for statement of line 156 moving on to the next element
NextLink(idx) == idx + 1

\* `current_depth + 1`
ChildDepth(depth) == depth + 1

Frame(url, depth) ==
    [url |-> url, depth |-> depth, phase |-> "enter", links |-> <<>>, idx |-> 0,
     called |-> <<>>]

Top(s) == stack[s][Len(stack[s])]
Popped(s) == SubSeq(stack[s], 1, Len(stack[s]) - 1)
WithTop(s, f) == [stack[s] EXCEPT ![Len(stack[s])] = f]

NoResult == [type |-> "none", items |-> <<>>]
\* `return articles`
ReturnValue(arts) == [type |-> "list", items |-> arts]
\* an exception leaving scrape_website: the caller receives no value
Raised == [type |-> "ValueError", items |-> <<>>]

----------------------------------------------------------------------------
(* Scheduling: one event loop; a coroutine keeps running until it awaits *)

AtSuspension(t) ==
    \/ pc[t] # "running"
    \/ /\ stack[t] # <<>>
       /\ Top(t).phase \in {"sleep", "fetch"}

CanRun(s) == \A t \in Sessions \ {s} : AtSuspension(t)

----------------------------------------------------------------------------
(* Idle values of the parts of the state a specification does not exercise *)

NoCall == [fn |-> "none"]
NoStore == [pc |-> "none", rows |-> <<>>]
NoTask == [pc |-> "none"]
NoApp == [pc |-> "none"]

\* a WebScraper after __init__ (lines 20-22), no session started yet
InitCrawl ==
    /\ visited_urls = [i \in Instances |-> {}]
    /\ rate_limit_delays = [i \in Instances |-> {}]
    /\ pc = [s \in Sessions |-> "idle"]
    /\ inst = [s \in Sessions |-> "w1"]
    /\ args = [s \in Sessions |-> [url |-> RootA, max_depth |-> 0, max_pages |-> 0]]
    /\ base_domain = [s \in Sessions |-> ""]
    /\ stack = [s \in Sessions |-> <<>>]
    /\ articles = [s \in Sessions |-> <<>>]
    /\ result = [s \in Sessions |-> NoResult]
    /\ fetchLog = <<>>
    /\ expansions = [s \in Sessions |-> <<>>]

Init ==
    /\ site \in Sites
    /\ InitCrawl
    /\ call = NoCall
    /\ store = NoStore
    /\ task = NoTask
    /\ app = NoApp

\* scrape_website, lines 81-100: defaults, visited_urls.clear(), articles = [],
\* first call of _scrape_recursive
StartSession(s, i, url, max_depth, max_pages) ==
    /\ pc[s] = "idle"
    /\ CanRun(s)
    /\ pc' = [pc EXCEPT ![s] = "running"]
    /\ inst' = [inst EXCEPT ![s] = i]
    /\ args' = [args EXCEPT ![s] =
                  [url |-> url,
                   max_depth |-> OrDefault(max_depth, MAX_SCRAPING_DEPTH),
                   max_pages |-> OrDefault(max_pages, MAX_PAGES_PER_DOMAIN)]]
    /\ visited_urls' = [visited_urls EXCEPT ![i] = {}]
    /\ articles' = [articles EXCEPT ![s] = <<>>]
    /\ base_domain' = [base_domain EXCEPT ![s] = ExtractDomain(url)]
    /\ stack' = [stack EXCEPT ![s] = <<Frame(url, 0)>>]
    /\ UNCHANGED <<app, call, store, task, site, rate_limit_delays, result, fetchLog, expansions>>

Running(s, phase) ==
    /\ pc[s] = "running"
    /\ CanRun(s)
    /\ stack[s] # <<>>
    /\ Top(s).phase = phase

\* _scrape_recursive, lines 117-123: the two early returns
EnterReturn(s) ==
    /\ Running(s, "enter")
    /\ \/ LimitsReached(Top(s).depth, args[s].max_depth, articles[s], args[s].max_pages)
       \/ Visited(Top(s).url, visited_urls[inst[s]])
    /\ stack' = [stack EXCEPT ![s] = Popped(s)]
    /\ UNCHANGED <<app, call, store, task, site, visited_urls, rate_limit_delays, pc, inst, args,
                   base_domain, articles, result, fetchLog, expansions>>

\* _fetch_url, lines 167-171: the headers of every request, whatever the caller
RequestHeaders == {"User-Agent", "Accept", "Accept-Language"}

LogEntry(s, f, waited) ==
    [session |-> s, inst |-> inst[s], url |-> f.url, depth |-> f.depth,
     waited |-> waited, op |-> "scrape", headers |-> RequestHeaders]

\* _scrape_recursive, lines 125-131, with _apply_rate_limit (248-252): the url
\* is marked visited; a domain already in rate_limit_delays sleeps first,
\* otherwise the domain is stamped and client.get is issued at once
EnterVisit(s) ==
    /\ Running(s, "enter")
    /\ ~LimitsReached(Top(s).depth, args[s].max_depth, articles[s], args[s].max_pages)
    /\ ~Visited(Top(s).url, visited_urls[inst[s]])
    /\ visited_urls' = [visited_urls EXCEPT ![inst[s]] = @ \cup {Top(s).url}]
    /\ IF NeedsDelay(base_domain[s], rate_limit_delays[inst[s]])
       THEN /\ stack' = [stack EXCEPT ![s] = WithTop(s, [Top(s) EXCEPT !.phase = "sleep"])]
            /\ UNCHANGED <<rate_limit_delays, fetchLog>>
       ELSE /\ rate_limit_delays' =
                 [rate_limit_delays EXCEPT ![inst[s]] = @ \cup {base_domain[s]}]
            /\ stack' = [stack EXCEPT ![s] = WithTop(s, [Top(s) EXCEPT !.phase = "fetch"])]
            /\ fetchLog' = Append(fetchLog, LogEntry(s, Top(s), 0))
    /\ UNCHANGED <<app, call, store, task, site, pc, inst, args, base_domain, articles, result, expansions>>

\* _apply_rate_limit, lines 251-252, after asyncio.sleep(RATE_LIMIT_DELAY)
\* returns; then client.get is issued (line 173)
SleepDone(s) ==
    /\ Running(s, "sleep")
    /\ rate_limit_delays' =
          [rate_limit_delays EXCEPT ![inst[s]] = @ \cup {base_domain[s]}]
    /\ stack' = [stack EXCEPT ![s] = WithTop(s, [Top(s) EXCEPT !.phase = "fetch"])]
    /\ fetchLog' = Append(fetchLog, LogEntry(s, Top(s), RATE_LIMIT_DELAY))
    /\ UNCHANGED <<app, call, store, task, site, visited_urls, pc, inst, args, base_domain, articles,
                   result, expansions>>

\* a fetch failure that is not caught and leaves scrape_website
FetchNoneAborts(s) ==
    /\ Running(s, "fetch")
    /\ FetchUrl(site[Top(s).url]) = None
    /\ stack' = [stack EXCEPT ![s] = <<>>]
    /\ pc' = [pc EXCEPT ![s] = "raised"]
    /\ result' = [result EXCEPT ![s] = Raised]
    /\ UNCHANGED <<app, call, store, task, site, visited_urls, rate_limit_delays, inst, args,
                   base_domain, articles, fetchLog, expansions>>

\* a fetch failure that is retried in place, without a bound
FetchNoneRetry(s) ==
    /\ Running(s, "fetch")
    /\ FetchUrl(site[Top(s).url]) = None
    /\ UNCHANGED vars

\* lines 131-133: _fetch_url gave None
FetchNone(s) ==
    /\ Running(s, "fetch")
    /\ FetchUrl(site[Top(s).url]) = None
    /\ stack' = [stack EXCEPT ![s] = Popped(s)]
    /\ UNCHANGED <<app, call, store, task, site, visited_urls, rate_limit_delays, pc, inst, args,
                   base_domain, articles, result, fetchLog, expansions>>

\* lines 135-141: a response; the article, if any, is appended; at max_depth
\* the call returns without looking at the links
FetchLeaf(s) ==
    /\ Running(s, "fetch")
    /\ FetchUrl(site[Top(s).url]) # None
    /\ ~MayFollowLinks(Top(s).depth, args[s].max_depth)
    /\ articles' = [articles EXCEPT ![s] = @ \o ExtractArticle(Top(s).url, site[Top(s).url])]
    /\ stack' = [stack EXCEPT ![s] = Popped(s)]
    /\ UNCHANGED <<app, call, store, task, site, visited_urls, rate_limit_delays, pc, inst, args,
                   base_domain, result, fetchLog, expansions>>

\* lines 135-153: a response below max_depth; the article, if any, is
\* appended and internal_links is collected
FetchExpand(s) ==
    /\ Running(s, "fetch")
    /\ FetchUrl(site[Top(s).url]) # None
    /\ MayFollowLinks(Top(s).depth, args[s].max_depth)
    /\ ~AnyHrefRaises(site[Top(s).url].hrefs)
    /\ articles' = [articles EXCEPT ![s] = @ \o ExtractArticle(Top(s).url, site[Top(s).url])]
    /\ LET links == InternalLinks(Top(s).url, site[Top(s).url].hrefs,
                                  base_domain[s], visited_urls[inst[s]])
       IN /\ stack' = [stack EXCEPT ![s] =
                         WithTop(s, [Top(s) EXCEPT !.phase = "loop", !.links = links, !.idx = 1])]
          /\ expansions' = [expansions EXCEPT ![s] =
                              Append(@, [url |-> Top(s).url, depth |-> Top(s).depth,
                                         seen |-> visited_urls[inst[s]], links |-> links])]
    /\ UNCHANGED <<app, call, store, task, site, visited_urls, rate_limit_delays, pc, inst, args,
                   base_domain, result, fetchLog>>

\* lines 135-149: urljoin raises on an href; nothing in _scrape_recursive or
\* scrape_website catches it, so it leaves scrape_website
FetchRaise(s) ==
    /\ Running(s, "fetch")
    /\ FetchUrl(site[Top(s).url]) # None
    /\ MayFollowLinks(Top(s).depth, args[s].max_depth)
    /\ AnyHrefRaises(site[Top(s).url].hrefs)
    /\ articles' = [articles EXCEPT ![s] = @ \o ExtractArticle(Top(s).url, site[Top(s).url])]
    /\ stack' = [stack EXCEPT ![s] = <<>>]
    /\ pc' = [pc EXCEPT ![s] = "raised"]
    /\ result' = [result EXCEPT ![s] = Raised]
    /\ UNCHANGED <<app, call, store, task, site, visited_urls, rate_limit_delays, inst, args,
                   base_domain, fetchLog, expansions>>

\* lines 156-162: the next of the first 10 internal links is recursed into
LoopCall(s) ==
    /\ Running(s, "loop")
    /\ Top(s).idx <= Len(FirstN(Top(s).links, LinkCap))
    /\ ~PageBudgetSpent(articles[s], args[s].max_pages)
    /\ stack' = [stack EXCEPT ![s] =
                   Append(WithTop(s, [Top(s) EXCEPT !.idx = NextLink(@),
                                        !.called = Append(@, Top(s).links[Top(s).idx])]),
                          Frame(Top(s).links[Top(s).idx], ChildDepth(Top(s).depth)))]
    /\ UNCHANGED <<app, call, store, task, site, visited_urls, rate_limit_delays, pc, inst, args,
                   base_domain, articles, result, fetchLog, expansions>>

\* lines 156-158: the loop ends, by exhaustion or by `break`
LoopExit(s) ==
    /\ Running(s, "loop")
    /\ \/ Top(s).idx > Len(FirstN(Top(s).links, LinkCap))
       \/ PageBudgetSpent(articles[s], args[s].max_pages)
    /\ stack' = [stack EXCEPT ![s] = Popped(s)]
    /\ UNCHANGED <<app, call, store, task, site, visited_urls, rate_limit_delays, pc, inst, args,
                   base_domain, articles, result, fetchLog, expansions>>

\* scrape_website, lines 102-103: `return articles`
Finish(s) ==
    /\ pc[s] = "running"
    /\ CanRun(s)
    /\ stack[s] = <<>>
    /\ pc' = [pc EXCEPT ![s] = "done"]
    /\ result' = [result EXCEPT ![s] = ReturnValue(articles[s])]
    /\ UNCHANGED <<app, call, store, task, site, visited_urls, rate_limit_delays, inst, args,
                   base_domain, stack, articles, fetchLog, expansions>>

DepthArgs == {None} \cup {Some(d) : d \in 0..MaxDepthBound}
PagesArgs == {None} \cup {Some(p) : p \in 1..MaxPagesBound}

Step(s) ==
    \/ EnterReturn(s)
    \/ EnterVisit(s)
    \/ SleepDone(s)
    \/ FetchNone(s)
    \/ FetchLeaf(s)
    \/ FetchExpand(s)
    \/ FetchRaise(s)
    \/ LoopCall(s)
    \/ LoopExit(s)
    \/ Finish(s)

\* one session on a fresh scraper, as scrape_url_task runs it
Next ==
    \/ \E url \in Seeds, d \in DepthArgs, p \in PagesArgs :
          StartSession(Solo, "w1", url, d, p)
    \/ Step(Solo)

Spec == Init /\ [][Next]_vars

\* the event loop keeps resuming a coroutine that can run
FairSpec == Spec /\ WF_vars(Next)

----------------------------------------------------------------------------
(* Several sessions on one event loop, on the same or on different scrapers *)

ConcSites == { s \in Sites :
                 /\ s[RootA] \in {Page("ok", "T", 101, TwoLinks),
                                  Page("ok", "T", 101, BackLinks)}
                 /\ s[Url(HostA, "/1")] \in {Page("ok", "T", 101, BackLinks),
                                             Page("ok", "T", 101, BrokenLinks),
                                             ErrorPage}
                 /\ s[Url(HostA, "/2")] \in {Page("ok", "T", 101, BackLinks),
                                             Page("ok", "T", 100, TwoLinks)} }

ConcDepthArgs == {Some(d) : d \in 1..MaxDepthBound}
ConcPagesArgs == {Some(p) : p \in 1..MaxPagesBound}

InitConc == Init /\ site \in ConcSites

NextConc ==
    \E s \in Sessions :
        \/ \E i \in Instances, url \in Seeds, d \in ConcDepthArgs, p \in ConcPagesArgs :
              /\ s = Solo => i = "w1"
              /\ StartSession(s, i, url, d, p)
        \/ Step(s)

SpecConc == InitConc /\ [][NextConc]_vars

----------------------------------------------------------------------------
(* One session run alone on a fresh scraper, as a function of its arguments *)

RECURSIVE Crawl(_, _, _, _, _, _)
RECURSIVE CrawlLinks(_, _, _, _, _, _)

\* _scrape_recursive, lines 117-162
Crawl(url, depth, max_depth, max_pages, domain, st) ==
    IF st.raised \/ LimitsReached(depth, max_depth, st.arts, max_pages)
                 \/ Visited(url, st.visited)
    THEN st
    ELSE LET st1 == [st EXCEPT !.visited = @ \cup {url}]
             st2 == [st1 EXCEPT !.arts = @ \o ExtractArticle(url, site[url])]
         IN IF FetchUrl(site[url]) = None THEN st1
            ELSE IF ~MayFollowLinks(depth, max_depth) THEN st2
            ELSE IF AnyHrefRaises(site[url].hrefs) THEN [st2 EXCEPT !.raised = TRUE]
            ELSE CrawlLinks(FirstN(InternalLinks(url, site[url].hrefs, domain, st2.visited),
                                   LinkCap),
                            depth, max_depth, max_pages, domain, st2)

\* the loop of lines 156-162
CrawlLinks(links, depth, max_depth, max_pages, domain, st) ==
    IF links = <<>> \/ st.raised \/ PageBudgetSpent(st.arts, max_pages)
    THEN st
    ELSE CrawlLinks(Tail(links), depth, max_depth, max_pages, domain,
                    Crawl(Head(links), ChildDepth(depth), max_depth, max_pages, domain, st))

\* scrape_website on a scraper no other session touches
CrawlAlone(a) ==
    Crawl(a.url, 0, a.max_depth, a.max_pages, ExtractDomain(a.url),
          [visited |-> {}, arts |-> <<>>, raised |-> FALSE])

----------------------------------------------------------------------------
(* Properties of one crawl session *)

SessionLog(s) == SelectSeq(fetchLog, LAMBDA e : e.session = s)

Range(seq) == {seq[k] : k \in 1..Len(seq)}

FetchedUrls(s) == {e.url : e \in Range(SessionLog(s))}

Terminated(s) == pc[s] \in {"done", "raised"}

FetchedAtMostOnce(s) ==
    \A j, k \in 1..Len(SessionLog(s)) :
        SessionLog(s)[j].url = SessionLog(s)[k].url => j = k

\* C1: within one crawl session no URL is fetched twice, however many
\* fetched pages link to it.
C1_FetchAtMostOnce == \A s \in Sessions : FetchedAtMostOnce(s)

\* a URL that two expanded pages both listed as an internal link was fetched
C1_Witness ==
    /\ pc[Solo] = "done"
    /\ \E j, k \in 1..Len(expansions[Solo]) :
          /\ j # k
          /\ \E u \in FetchedUrls(Solo) :
                /\ u \in Range(expansions[Solo][j].links)
                /\ u \in Range(expansions[Solo][k].links)

\* C2: the article list never holds more than max_pages articles, during
\* the traversal and in the value scrape_website returns.
C2_AtMostMaxPages ==
    \A s \in Sessions :
        /\ pc[s] # "idle" => Len(articles[s]) <= args[s].max_pages
        /\ pc[s] = "done" => Len(result[s].items) <= args[s].max_pages

\* the budget is exhausted while a page still has links to recurse into
C2_Witness ==
    /\ pc[Solo] = "running"
    /\ Len(articles[Solo]) = args[Solo].max_pages
    /\ stack[Solo] # <<>>
    /\ Top(Solo).phase = "loop"
    /\ Top(Solo).idx <= Len(FirstN(Top(Solo).links, LinkCap))

\* C3: no page is fetched deeper than max_depth, links are collected and
\* followed only from pages at a depth below max_depth, and with
\* max_depth = 0 only the seed is fetched.
C3_DepthBounded ==
    \A s \in Sessions :
        /\ \A e \in Range(SessionLog(s)) : e.depth <= args[s].max_depth
        /\ \A x \in Range(expansions[s]) : x.depth < args[s].max_depth
        /\ \A k \in 1..Len(stack[s]) :
              /\ stack[s][k].phase = "loop" => stack[s][k].depth < args[s].max_depth
              /\ k > 1 => /\ stack[s][k-1].phase = "loop"
                          /\ stack[s][k].depth = stack[s][k-1].depth + 1
        /\ (pc[s] # "idle" /\ args[s].max_depth = 0)
              => FetchedUrls(s) \subseteq {args[s].url}

\* a finished session with max_depth = 0 whose seed page carries links
C3_Witness ==
    /\ pc[Solo] = "done"
    /\ args[Solo].max_depth = 0
    /\ FetchedUrls(Solo) = {args[Solo].url}
    /\ site[args[Solo].url].status = "ok"
    /\ site[args[Solo].url].hrefs # <<>>

\* C4: every crawl session terminates: control leaves scrape_website, also
\* on cyclic link graphs and pages that link to themselves.
C4_Terminates == <>Terminated(Solo)

\* a session over a site whose root links to itself has come to its end
C4_Witness ==
    /\ pc[Solo] = "done"
    /\ args[Solo].max_depth >= 2
    /\ \E h \in Range(site[RootA].hrefs) : UrlJoin(RootA, h) = RootA
    /\ Len(SessionLog(Solo)) >= 2

\* the same-host, not-yet-visited links of a page, in document order
SameHostUnvisited(url, domain, seen) ==
    SelectSeq([k \in 1..Len(site[url].hrefs) |-> UrlJoin(url, site[url].hrefs[k])],
              LAMBDA u : u.host = domain /\ u \notin seen)

IsPrefix(a, b) == Len(a) <= Len(b) /\ a = SubSeq(b, 1, Len(a))

\* C5: from any fetched page at most 10 child links are recursed into, and
\* they are the first 10 same-host, not-yet-visited links in document order.
C5_FirstTenLinks ==
    \A s \in Sessions :
        /\ \A x \in Range(expansions[s]) :
              x.links = SameHostUnvisited(x.url, base_domain[s], x.seen)
        /\ \A k \in 1..Len(stack[s]) :
              /\ Len(stack[s][k].called) <= LinkCap
              /\ IsPrefix(stack[s][k].called, stack[s][k].links)
              /\ k < Len(stack[s])
                    => /\ stack[s][k].called # <<>>
                       /\ stack[s][k+1].url
                            = stack[s][k].called[Len(stack[s][k].called)]

\* a page with more than 10 internal links has had exactly 10 recursed into
C5_Witness ==
    /\ pc[Solo] = "running"
    /\ stack[Solo] # <<>>
    /\ Top(Solo).phase = "loop"
    /\ Len(Top(Solo).links) > LinkCap
    /\ Len(Top(Solo).called) = LinkCap
    /\ Top(Solo).idx > LinkCap

\* C6: a page whose fetch fails, is not HTML or is not modified yields no
\* article and no link expansion, and does not abort the session: a session
\* ends by an exception only when an href of a fetched page raised, and a
\* session that returns below its page budget has visited every one of the
\* first 10 internal links of every page it expanded.
C6_FailedPageSkipped ==
    \A s \in Sessions :
        /\ \A a \in Range(articles[s]) : site[a.url].status = "ok"
        /\ \A x \in Range(expansions[s]) : site[x.url].status = "ok"
        /\ pc[s] = "raised"
              => \E e \in Range(SessionLog(s)) :
                    /\ site[e.url].status = "ok"
                    /\ AnyHrefRaises(site[e.url].hrefs)
        /\ (pc[s] = "done" /\ Len(articles[s]) < args[s].max_pages)
              => \A x \in Range(expansions[s]) :
                    \A k \in 1..Len(x.links) :
                        k <= LinkCap => x.links[k] \in FetchedUrls(s)

\* a session returned although a fetch failed, and fetched a later link
C6_Witness ==
    /\ pc[Solo] = "done"
    /\ \E j, k \in 1..Len(SessionLog(Solo)) :
          /\ j < k
          /\ site[SessionLog(Solo)[j].url].status # "ok"
          /\ site[SessionLog(Solo)[k].url].status = "ok"
          /\ SessionLog(Solo)[j].depth >= SessionLog(Solo)[k].depth

\* C7: when an exception escapes the traversal after articles were
\* extracted, the caller of scrape_website still receives those articles.
C7_PartialResultsReturned ==
    \A s \in Sessions :
        (pc[s] = "raised" /\ articles[s] # <<>>)
            => result[s] = ReturnValue(articles[s])

HostOf(e) == ExtractDomain(e.url)

\* what the fetch numbered k waited, had pacing been counted per session
WaitPerSession(k) ==
    IF \E j \in 1..(k-1) : /\ fetchLog[j].session = fetchLog[k].session
                           /\ HostOf(fetchLog[j]) = HostOf(fetchLog[k])
    THEN RATE_LIMIT_DELAY ELSE 0

\* what the fetch numbered k waited, pacing counted per scraper instance
WaitPerInstance(k) ==
    IF \E j \in 1..(k-1) : /\ fetchLog[j].inst = fetchLog[k].inst
                           /\ HostOf(fetchLog[j]) = HostOf(fetchLog[k])
    THEN RATE_LIMIT_DELAY ELSE 0

EachUrlOnce(s) == FetchedAtMostOnce(s)

SameAsAlone(s) ==
    (pc[s] = "done" /\ ~CrawlAlone(args[s]).raised)
        => result[s] = ReturnValue(CrawlAlone(args[s]).arts)

\* C9: interleaved sessions, also on one WebScraper instance, do not
\* interact: each fetches every URL at most once and returns the articles
\* it would return when run alone.
C9_SessionsIndependent ==
    \A s \in Sessions : EachUrlOnce(s) /\ SameAsAlone(s)

IsNoneOrStr(v) == v.type \in {"NoneType", "str"}

\* C10: scrape_website returns a triple (articles, etag, last_modified) with
\* articles a list and the other two None or a string.
C10_ReturnsTriple ==
    \A s \in Sessions :
        pc[s] = "done"
            => /\ result[s].type = "tuple"
               /\ Len(result[s].items) = 3
               /\ result[s].items[1].type = "list"
               /\ IsNoneOrStr(result[s].items[2])
               /\ IsNoneOrStr(result[s].items[3])

----------------------------------------------------------------------------
(* Subdomain discovery: WebScraper.discover_subdomains, scraper.py 24-62 *)

DiscMaxLinks == 3

HostNews == "news.a.com"
HostLookalike == "ba.com"
HostPort == "a.com:8080"

\* the characters of the host names of the model
Chars(h) ==
    CASE h = HostA -> <<"a", ".", "c", "o", "m">>
      [] h = HostB -> <<"b", ".", "o", "r", "g">>
      [] h = HostNews -> <<"n", "e", "w", "s", ".", "a", ".", "c", "o", "m">>
      [] h = HostLookalike -> <<"b", "a", ".", "c", "o", "m">>
      [] h = HostPort -> <<"a", ".", "c", "o", "m", ":", "8", "0", "8", "0">>
      [] OTHER -> <<>>

\* Python's `needle in hay` on str
Contains(hay, needle) ==
    \E i \in 0..(Len(hay) - Len(needle)) : SubSeq(hay, i + 1, i + Len(needle)) = needle

IsSubdomainLinkAnyHost(link_domain, domain) ==
    link_domain # "" /\ link_domain # domain

\* line 55: `link_domain and link_domain != base_domain and base_domain in link_domain`
IsSubdomainLink(link_domain, domain) ==
    /\ link_domain # ""
    /\ link_domain # domain
    /\ Contains(Chars(link_domain), Chars(domain))

\* lines 49-56: the loop over the anchors; `subdomains` is a set, kept here as
\* a list without repetitions; an href that makes urljoin raise ends the loop
\* (the except of line 58) with what was collected before it
RECURSIVE SubdomainScan(_, _, _, _)
SubdomainScan(base_url, hrefs, domain, subdomains) ==
    IF hrefs = <<>> \/ UrlJoinRaises(Head(hrefs)) THEN subdomains
    ELSE LET absolute_url == UrlJoin(base_url, Head(hrefs))
             link_domain == ExtractDomain(absolute_url)
             seen == {subdomains[k] : k \in 1..Len(subdomains)}
         IN SubdomainScan(base_url, Tail(hrefs), domain,
                IF IsSubdomainLink(link_domain, domain) /\ absolute_url \notin seen
                THEN Append(subdomains, absolute_url)
                ELSE subdomains)

\* lines 34-41: base_domain is taken and the one request, for base_url itself,
\* is issued; neither visited_urls nor rate_limit_delays is consulted
DiscoverStart(s, i, base_url) ==
    /\ pc[s] = "idle"
    /\ CanRun(s)
    /\ pc' = [pc EXCEPT ![s] = "discovering"]
    /\ inst' = [inst EXCEPT ![s] = i]
    /\ args' = [args EXCEPT ![s] = [url |-> base_url, max_depth |-> 0, max_pages |-> 0]]
    /\ base_domain' = [base_domain EXCEPT ![s] = ExtractDomain(base_url)]
    /\ fetchLog' = Append(fetchLog,
          [session |-> s, inst |-> i, url |-> base_url, depth |-> 0, waited |-> 0,
           op |-> "discover", headers |-> RequestHeaders])
    /\ UNCHANGED <<app, call, store, task, site, visited_urls, rate_limit_delays, stack,
                   articles, result, expansions>>

\* lines 42-62: no response gives [], else the anchors are scanned
DiscoverReturn(s) ==
    /\ pc[s] = "discovering"
    /\ CanRun(s)
    /\ LET response == FetchUrl(site[args[s].url])
       IN result' = [result EXCEPT ![s] =
             IF response = None THEN ReturnValue(<<>>)
             ELSE ReturnValue(SubdomainScan(args[s].url, response[1].hrefs,
                                            base_domain[s], <<>>))]
    /\ pc' = [pc EXCEPT ![s] = "done"]
    /\ UNCHANGED <<app, call, store, task, site, visited_urls, rate_limit_delays, inst, args,
                   base_domain, stack, articles, fetchLog, expansions>>

DiscHrefs == {Abs(HostNews, "/"), Abs(HostLookalike, "/"), Abs(HostPort, "/"),
              Abs(HostA, "/1"), Abs(HostB, "/"), Abs("", "mailto"), Rel("/2"), BadHref}

RECURSIVE SeqsUpTo(_, _)
SeqsUpTo(S, n) ==
    IF n = 0 THEN {<<>>}
    ELSE LET shorter == SeqsUpTo(S, n - 1)
         IN shorter \cup {Append(q, x) : q \in shorter, x \in S}

DiscPages == {Page("ok", "T", 101, hs) : hs \in SeqsUpTo(DiscHrefs, DiscMaxLinks)}
                 \cup {ErrorPage, NonHtmlPage}

DiscSites == {[u \in URLs |-> IF u \in Seeds THEN p ELSE ErrorPage] : p \in DiscPages}

InitDisc ==
    /\ site \in DiscSites
    /\ InitCrawl
    /\ call = NoCall
    /\ store = NoStore
    /\ task = NoTask
    /\ app = NoApp

NextDisc ==
    \/ \E url \in Seeds : DiscoverStart(Solo, "w1", url)
    \/ DiscoverReturn(Solo)

SpecDisc == InitDisc /\ [][NextDisc]_vars

\* C20: discover_subdomains issues one request, for the seed, and nothing
\* else; every URL it returns has a non-empty host that is not the seed's host
\* and contains the seed's host as a substring; when the seed cannot be
\* fetched it returns the empty list, and it never raises
C20_DiscoverOneFetch ==
    /\ Len(fetchLog) <= 1
    /\ \A k \in 1..Len(fetchLog) : fetchLog[k].url = args[Solo].url /\ fetchLog[k].depth = 0
    /\ pc[Solo] # "raised"
    /\ pc[Solo] = "done" =>
          /\ Len(fetchLog) = 1
          /\ result[Solo].type = "list"
          /\ FetchUrl(site[args[Solo].url]) = None => result[Solo].items = <<>>
          /\ \A k \in 1..Len(result[Solo].items) :
                LET h == ExtractDomain(result[Solo].items[k])
                IN /\ h # ""
                   /\ h # ExtractDomain(args[Solo].url)
                   /\ Contains(Chars(h), Chars(ExtractDomain(args[Solo].url)))

\* a discovery that returned a subdomain from a page that also links to the
\* seed's own host, to a foreign host and to a host-less href
C20_Witness ==
    /\ pc[Solo] = "done"
    /\ args[Solo].url = RootA
    /\ result[Solo].items = <<Url(HostNews, "/")>>
    /\ \E k \in 1..Len(site[RootA].hrefs) : site[RootA].hrefs[k] = Abs(HostB, "/")

----------------------------------------------------------------------------
(* One run of scrape_url_task, celery_worker.py 48-203, up to the point     *)
(* where its crawl has been unpacked; the scraper is the fresh instance     *)
(* "w1" and the crawl is the session Solo                                   *)

\* values of the nullable columns URL.last_etag and URL.last_modified
\* (models/url.py 25-26) and of the locals that are assigned to them
NoToken == [kind |-> "none"]
Str(t) == [kind |-> "str", text |-> t]
Dict(a) == [kind |-> "dict", url |-> a.url]

IsNone(v) == v.kind = "none"

EtagValues == {NoToken, Str("W/1")}
ModifiedValues == {NoToken, Str("Mon")}

\* the task before its first statement: the URL row it will load and
\* whether `discover_subdomains and not url_obj.is_subdomain` will hold
TaskReady(url, etag, modified, discover) ==
    [pc |-> "ready", url |-> url, discover |-> discover,
     stored |-> [last_etag |-> etag, last_modified |-> modified],
     url_obj |-> [last_etag |-> etag, last_modified |-> modified],
     job |-> "none", job_db |-> "none", subdomain_urls |-> <<>>, error |-> ""]

TypeErrorRaised == [type |-> "TypeError", items |-> <<>>]

\* lines 64-81: the job row is created as "running" and committed
TaskStart ==
    /\ task.pc = "ready"
    /\ task' = [task EXCEPT !.pc = IF task.discover THEN "discover" ELSE "scrape",
                            !.job = "running", !.job_db = "running"]
    /\ UNCHANGED <<app, crawlVars, call, store>>

\* line 87: asyncio.run(scraper.discover_subdomains(url_obj.url))
TaskDiscover ==
    /\ task.pc = "discover"
    /\ DiscoverStart(Solo, "w1", task.url)

\* lines 87-102: the list comes back and is saved
TaskSaveSubdomains ==
    /\ task.pc = "discover"
    /\ pc[Solo] = "done"
    /\ task' = [task EXCEPT !.pc = "scrape", !.subdomain_urls = result[Solo].items]
    /\ pc' = [pc EXCEPT ![Solo] = "idle"]
    /\ result' = [result EXCEPT ![Solo] = NoResult]
    /\ UNCHANGED <<app, call, store, site, visited_urls, rate_limit_delays, inst, args,
                   base_domain, stack, articles, fetchLog, expansions>>

\* lines 106-107 when both columns are NULL: max_depth and max_pages arrive
\* as None and take their defaults
TaskScrape ==
    /\ task.pc = "scrape"
    /\ IsNone(task.url_obj.last_etag) /\ IsNone(task.url_obj.last_modified)
    /\ StartSession(Solo, "w1", task.url, None, None)

\* lines 106-107 when a column holds a string: it arrives as max_depth or as
\* max_pages, scrape_website runs to its first call of _scrape_recursive
\* (lines 81-100), and the comparison of line 118 between an int and a str
\* raises TypeError before any request
TaskScrapeTypeError ==
    /\ task.pc = "scrape"
    /\ pc[Solo] = "idle"
    /\ ~(IsNone(task.url_obj.last_etag) /\ IsNone(task.url_obj.last_modified))
    /\ pc' = [pc EXCEPT ![Solo] = "raised"]
    /\ inst' = [inst EXCEPT ![Solo] = "w1"]
    /\ args' = [args EXCEPT ![Solo] = [url |-> task.url, max_depth |-> 0, max_pages |-> 0]]
    /\ visited_urls' = [visited_urls EXCEPT !["w1"] = {}]
    /\ articles' = [articles EXCEPT ![Solo] = <<>>]
    /\ base_domain' = [base_domain EXCEPT ![Solo] = ExtractDomain(task.url)]
    /\ result' = [result EXCEPT ![Solo] = TypeErrorRaised]
    /\ UNCHANGED <<app, call, store, task, site, rate_limit_delays, stack, fetchLog, expansions>>

\* lines 106-119 once scrape_website has ended.  An exception of the crawl
\* goes to the handler of line 191.  A list is unpacked into three names:
\* ValueError unless it has exactly three elements; with three, articles_data,
\* etag and last_modified are the three article dicts, both `if` of lines
\* 112-115 are true, and batch_process_articles (ai_service.py 300-324),
\* iterating over the keys of a dict, raises AttributeError from its handler
TaskUnpack ==
    /\ task.pc = "scrape"
    /\ pc[Solo] \in {"done", "raised"}
    /\ LET r == result[Solo]
       IN task' =
            IF r.type # "list" THEN [task EXCEPT !.pc = "except", !.error = r.type]
            ELSE IF Len(r.items) # 3
                 THEN [task EXCEPT !.pc = "except", !.error = "ValueError"]
                 ELSE [task EXCEPT !.pc = "except", !.error = "AttributeError",
                                   !.url_obj = [last_etag |-> Dict(r.items[2]),
                                                last_modified |-> Dict(r.items[3])]]
    /\ UNCHANGED <<app, crawlVars, call, store>>

\* lines 191-200: the job is marked failed and committed; the commit also
\* flushes url_obj, and a dict bound to a String column is rejected by the
\* driver, so that the exception leaves the task and the job row stays
\* "running"
TaskFail ==
    /\ task.pc = "except"
    /\ task' = IF task.url_obj.last_etag.kind = "dict"
               THEN [task EXCEPT !.pc = "crashed", !.job = "failed"]
               ELSE [task EXCEPT !.pc = "failed", !.job = "failed", !.job_db = "failed"]
    /\ UNCHANGED <<app, crawlVars, call, store>>

InitTask ==
    /\ site \in Sites
    /\ InitCrawl
    /\ call = NoCall
    /\ store = NoStore
    /\ app = NoApp
    /\ task \in {TaskReady(RootA, e, m, d) :
                    e \in EtagValues, m \in ModifiedValues, d \in BOOLEAN}

NextTask ==
    \/ TaskStart
    \/ TaskDiscover
    \/ DiscoverReturn(Solo) /\ task.pc = "discover"
    \/ TaskSaveSubdomains
    \/ TaskScrape
    \/ TaskScrapeTypeError
    \/ Step(Solo)
    \/ TaskUnpack
    \/ TaskFail

SpecTask == InitTask /\ [][NextTask]_vars

HasToken == ~IsNone(task.stored.last_etag) \/ ~IsNone(task.stored.last_modified)

ConditionalHeaders(tokens) ==
    (IF IsNone(tokens.last_etag) THEN {} ELSE {"If-None-Match"})
      \cup (IF IsNone(tokens.last_modified) THEN {} ELSE {"If-Modified-Since"})

\* the requests for the target itself made by the crawl of the task
SeedRequests ==
    {k \in 1..Len(fetchLog) :
        fetchLog[k].op = "scrape" /\ fetchLog[k].url = task.url /\ fetchLog[k].depth = 0}

CrawlEnded == task.pc \in {"except", "failed", "crashed"}

\* C11: the crawl of a target requests the target's URL, and that request
\* carries If-None-Match when an ETag is stored for the target and
\* If-Modified-Since when a Last-Modified is stored, and neither header when
\* no token is stored
C11_ConditionalRequest ==
    /\ \A k \in SeedRequests :
          fetchLog[k].headers \cap {"If-None-Match", "If-Modified-Since"}
              = ConditionalHeaders(task.stored)
    /\ CrawlEnded /\ HasToken => SeedRequests # {}

----------------------------------------------------------------------------
(* Article extraction from a parsed document: _extract_article, scraper.py  *)
(* 187-230.  A document is what the heuristics look at: its first h1 and    *)
(* whether it sits inside script/style/nav/footer/header, its title         *)
(* element, the text lengths of the article/main/div elements whose class   *)
(* matches content|article|post|entry, and the text lengths of its p        *)
(* elements                                                                 *)

MaxTags == 2
MinPartLen == 50
SeparatorLen == 2

TextLens == {50, 51, 100, 101}

Heading(text, removed) == [text |-> text, removed |-> removed]

Doc(h1, title, blocks, paras) ==
    [h1 |-> h1, title |-> title, blocks |-> blocks, paras |-> paras]

Docs ==
    {Doc(h, t, b, q) :
        h \in {None, Some(Heading("", FALSE)), Some(Heading("H", FALSE)),
               Some(Heading("H", TRUE))},
        t \in {None, Some(""), Some("T")},
        b \in SeqsUpTo(TextLens, MaxTags),
        q \in SeqsUpTo(TextLens, MaxTags)}

\* lines 193-201: an h1 inside a removed element is gone; the first h1 left
\* gives the title, even when its text is empty; else the title element;
\* None is rendered as the empty text, both being false at line 219
DocTitle(doc) ==
    IF doc.h1 # None /\ ~doc.h1[1].removed THEN doc.h1[1].text
    ELSE IF doc.title # None THEN doc.title[1]
    ELSE ""

\* lines 204-208: the class-matched containers, or every p when there is none
ContentTags(doc) == IF doc.blocks # <<>> THEN doc.blocks ELSE doc.paras

\* lines 210-214: the texts longer than 50 characters
RECURSIVE ContentParts(_)
ContentParts(tags) ==
    IF tags = <<>> THEN <<>>
    ELSE IF Head(tags) > MinPartLen THEN <<Head(tags)>> \o ContentParts(Tail(tags))
    ELSE ContentParts(Tail(tags))

\* line 216: len('\n\n'.join(content_parts))
RECURSIVE JoinedLen(_)
JoinedLen(parts) ==
    IF parts = <<>> THEN 0
    ELSE IF Len(parts) = 1 THEN Head(parts)
    ELSE Head(parts) + SeparatorLen + JoinedLen(Tail(parts))

DocContentLen(doc) == JoinedLen(ContentParts(ContentTags(doc)))

\* _extract_article on a document
ExtractFromDoc(url, doc) ==
    ExtractArticle(url, Page("ok", DocTitle(doc), DocContentLen(doc), NoLinks))

ExtractCall ==
    /\ call.fn = "_extract_article"
    /\ ~call.done
    /\ call' = [call EXCEPT !.done = TRUE, !.ret = ExtractFromDoc(RootA, call.arg)]
    /\ UNCHANGED <<app, crawlVars, store, task>>

\* either the extractor is called on a document, or a crawl runs and calls it
\* on the pages it fetches
InitExtract ==
    /\ InitCrawl
    /\ store = NoStore
    /\ task = NoTask
    /\ app = NoApp
    /\ \/ /\ site \in ConcSites
          /\ call = NoCall
       \/ /\ site = [u \in URLs |-> ErrorPage]
          /\ call \in {[fn |-> "_extract_article", arg |-> d, done |-> FALSE, ret |-> None] :
                          d \in Docs}

NextExtract ==
    \/ ExtractCall
    \/ call = NoCall /\ Next

SpecExtract == InitExtract /\ [][NextExtract]_vars

HasHeadingOrTitle(doc) ==
    \/ doc.h1 # None /\ ~doc.h1[1].removed
    \/ doc.title # None

\* C13: every article of a crawl, and every article the extractor returns,
\* has a non-empty title and a body of more than 100 characters; the extractor
\* returns None when the document has neither an h1 nor a title element, and
\* when the assembled body has at most 100 characters
C13_ArticleHasTitleAndBody ==
    /\ \A s \in Sessions : \A k \in 1..Len(articles[s]) :
          articles[s][k].title # "" /\ articles[s][k].bodyLen > 100
    /\ call.fn = "_extract_article" /\ call.done =>
          /\ call.ret # None => call.ret[1].title # "" /\ call.ret[1].bodyLen > 100
          /\ ~HasHeadingOrTitle(call.arg) => call.ret = None
          /\ DocContentLen(call.arg) <= 100 => call.ret = None

\* the extractor gave an article for a document whose two paragraphs are each
\* too short on their own account to pass 100 and pass it once joined
C13_Witness ==
    /\ call.fn = "_extract_article"
    /\ call.done
    /\ call.arg.blocks = <<>>
    /\ call.arg.paras = <<51, 51>>
    /\ call.ret # None

----------------------------------------------------------------------------
(* The content fingerprint: Article.generate_content_hash, article.py 40-51 *)
(* Texts are sequences of characters of a small alphabet: a letter in its   *)
(* two cases, the Greek sigma in its three forms (capital, medial, final),  *)
(* a blank and a punctuation mark                                           *)

MaxTitleLen == 2
MaxContentLen == 3
\* `content[:500]`, with the 500 brought down to the size of the texts
HashPrefixBound == 2
HexDigits == 64

Alphabet == {"A", "a", "SIGMA", "sigma", "final-sigma", " ", "!"}
Cased == {"A", "a", "SIGMA", "sigma", "final-sigma"}
Blank == {" "}
WordChars == {"A", "a", "SIGMA", "sigma", "final-sigma"}

Texts(n) == SeqsUpTo(Alphabet, n)

\* str.lower(): "A" gives "a"; a capital sigma gives the final form when a
\* cased letter precedes it and none follows it, else the medial form
LowerAt(text, i) ==
    IF text[i] = "A" THEN "a"
    ELSE IF text[i] = "SIGMA"
         THEN IF /\ i > 1
                 /\ text[i - 1] \in Cased
                 /\ (i = Len(text) \/ text[i + 1] \notin Cased)
              THEN "final-sigma" ELSE "sigma"
         ELSE text[i]

Lower(text) == [i \in 1..Len(text) |-> LowerAt(text, i)]

\* str.strip()
RECURSIVE LStrip(_)
LStrip(text) ==
    IF text # <<>> /\ Head(text) \in Blank THEN LStrip(Tail(text)) ELSE text

RECURSIVE RStrip(_)
RStrip(text) ==
    IF text # <<>> /\ text[Len(text)] \in Blank
    THEN RStrip(SubSeq(text, 1, Len(text) - 1)) ELSE text

Strip(text) == RStrip(LStrip(text))

\* re.sub(r'[^\w\s]', '', text)
RECURSIVE DropPunctuation(_)
DropPunctuation(text) ==
    IF text = <<>> THEN <<>>
    ELSE IF Head(text) \in WordChars \cup Blank
         THEN <<Head(text)>> \o DropPunctuation(Tail(text))
         ELSE DropPunctuation(Tail(text))

\* ' '.join(text.split())
RECURSIVE CollapseBlanks(_)
CollapseBlanks(text) ==
    LET t == LStrip(text)
    IN IF t = <<>> THEN <<>>
       ELSE IF Head(t) \notin Blank /\ Len(t) > 1 /\ t[2] \in Blank
            THEN IF LStrip(Tail(t)) = <<>> THEN <<Head(t)>>
                 ELSE <<Head(t), " ">> \o CollapseBlanks(Tail(t))
            ELSE <<Head(t)>> \o CollapseBlanks(Tail(t))

\* `text[:n]`
Prefix(text, n) == SubSeq(text, 1, IF Len(text) < n THEN Len(text) ELSE n)

\* lines 45-46
NormalizedTitle(title) == CollapseBlanks(DropPunctuation(Strip(Lower(title))))

\* line 47
NormalizedContent(content) == Strip(Lower(Prefix(content, HashPrefixBound)))

\* hashlib.sha256(text).hexdigest(): 64 hexadecimal digits, taken to be
\* different for different texts
Sha256Hex(text) == [digits |-> HexDigits, of |-> text]

\* lines 45-51
GenerateContentHash(title, content) ==
    Sha256Hex(NormalizedTitle(title) \o NormalizedContent(content))

HashCall ==
    /\ call.fn = "generate_content_hash"
    /\ ~call.done
    /\ call' = [call EXCEPT !.done = TRUE,
                            !.ret = GenerateContentHash(call.arg.title, call.arg.content)]
    /\ UNCHANGED <<app, crawlVars, store, task>>

InitHash ==
    /\ site = [u \in URLs |-> ErrorPage]
    /\ InitCrawl
    /\ store = NoStore
    /\ task = NoTask
    /\ app = NoApp
    /\ call \in {[fn |-> "generate_content_hash", arg |-> [title |-> t, content |-> c],
                  done |-> FALSE, ret |-> Sha256Hex(<<>>)] :
                    t \in Texts(MaxTitleLen), c \in Texts(MaxContentLen)}

NextHash == HashCall

SpecHash == InitHash /\ [][NextHash]_vars

\* a capital letter and a lowercase form of it
CasePairs == {{"A", "a"}, {"SIGMA", "sigma"}, {"SIGMA", "final-sigma"}}

SameLetter(c, d) == c = d \/ {c, d} \in CasePairs

\* the texts that differ from `text` in letter case only
CaseVariants(text) ==
    {v \in [1..Len(text) -> Alphabet] : \A i \in 1..Len(text) : SameLetter(v[i], text[i])}

\* C14: the fingerprint is a function of (title, content), is 64 hexadecimal
\* digits long, and is the same for inputs that differ only in letter case
C14_HashCaseInsensitive ==
    call.fn = "generate_content_hash" /\ call.done =>
        /\ call.ret = GenerateContentHash(call.arg.title, call.arg.content)
        /\ call.ret.digits = 64
        /\ \A t \in CaseVariants(call.arg.title), c \in CaseVariants(call.arg.content) :
              GenerateContentHash(t, c) = call.ret

----------------------------------------------------------------------------
(* The loop of scrape_url_task that saves a batch of articles into the      *)
(* articles table, celery_worker.py 121-166.  A row keeps the value of      *)
(* content_hash held by the ORM object and the value last written to the    *)
(* database; a row that was added and not yet flushed is not seen by a      *)
(* query.  Whether the session flushes before each query (autoflush) is     *)
(* set where the session factory is made, and both settings are covered.    *)

MaxBatch == 2
MaxJobs == 3

ArticleUrls == {Url(HostA, "/1"), Url(HostA, "/2")}
ArticleContents == {<<"a">>, <<"A">>, <<"!">>}

\* an article as the crawl and the enrichment hand it to the loop
ArticleData(url, content) == [url |-> url, title |-> <<"A">>, content |-> content]

ArticleBatches ==
    {b \in SeqsUpTo({ArticleData(u, c) : u \in ArticleUrls, c \in ArticleContents}, MaxBatch) :
        \A i, j \in 1..Len(b) : i # j => b[i].url # b[j].url}

Row(url, hash, content) ==
    [url |-> url, content_hash |-> hash, content |-> content, db_hash |-> hash,
     flushed |-> FALSE]

Flush(rows) ==
    [k \in 1..Len(rows) |-> [rows[k] EXCEPT !.db_hash = rows[k].content_hash,
                                            !.flushed = TRUE]]

\* lines 132-135: the rows the database finds for `url == ... OR content_hash == ...`
Matches(rows, url, hash) ==
    {k \in 1..Len(rows) :
        rows[k].flushed /\ (rows[k].url = url \/ rows[k].db_hash = hash)}

\* a job reaches its loop with the batch `articles_data`
StartJob(batch) ==
    /\ store.pc = "idle"
    /\ store.jobs < MaxJobs
    /\ store' = [store EXCEPT !.pc = "saving", !.jobs = @ + 1, !.batch = batch,
                              !.idx = 0, !.new_articles = 0, !.duplicates_skipped = 0,
                              !.classes = <<>>]
    /\ UNCHANGED <<app, crawlVars, call, task>>

SeenRows == IF store.autoflush THEN Flush(store.rows) ELSE store.rows

Current == store.batch[store.idx + 1]

CurrentHash == GenerateContentHash(Current.title, Current.content)

Advance(rows, seen, new, dup) ==
    store' = [store EXCEPT !.rows = rows, !.idx = @ + 1, !.before = seen,
                           !.last = Some(Current),
                           !.new_articles = @ + new, !.duplicates_skipped = @ + dup,
                           !.classes = Append(@, IF new = 1 THEN "new"
                                                 ELSE IF dup = 1 THEN "duplicate"
                                                 ELSE "updated")]

\* lines 149-164: no row found, the article is added
SaveNew ==
    /\ store.pc = "saving"
    /\ store.idx < Len(store.batch)
    /\ Matches(SeenRows, Current.url, CurrentHash) = {}
    /\ Advance(Append(SeenRows, Row(Current.url, CurrentHash, Current.content)),
               SeenRows, 1, 0)
    /\ UNCHANGED <<app, crawlVars, call, task>>

\* lines 137-148: `.first()` gives one of the rows found, in no stated order;
\* it is overwritten when it has the article's URL and another hash, else the
\* article is skipped
SaveExisting ==
    /\ store.pc = "saving"
    /\ store.idx < Len(store.batch)
    /\ \E k \in Matches(SeenRows, Current.url, CurrentHash) :
          LET existing == SeenRows[k]
          IN IF existing.url = Current.url /\ existing.content_hash # CurrentHash
             THEN Advance([SeenRows EXCEPT ![k].content_hash = CurrentHash,
                                           ![k].content = Current.content],
                          SeenRows, 0, 0)
             ELSE Advance(SeenRows, SeenRows, 0, 1)
    /\ UNCHANGED <<app, crawlVars, call, task>>

\* line 166: db.commit()
Commit ==
    /\ store.pc = "saving"
    /\ store.idx = Len(store.batch)
    /\ store' = [store EXCEPT !.pc = "idle", !.rows = Flush(store.rows)]
    /\ UNCHANGED <<app, crawlVars, call, task>>

InitStore ==
    /\ site = [u \in URLs |-> ErrorPage]
    /\ InitCrawl
    /\ call = NoCall
    /\ task = NoTask
    /\ app = NoApp
    /\ store \in {[rows |-> <<>>, autoflush |-> f, pc |-> "idle", jobs |-> 0,
                   batch |-> <<>>, idx |-> 0, new_articles |-> 0,
                   duplicates_skipped |-> 0, before |-> <<>>, last |-> None,
                   classes |-> <<>>] :
                     f \in BOOLEAN}

NextStore ==
    \/ \E batch \in ArticleBatches : StartJob(batch)
    \/ SaveNew
    \/ SaveExisting
    \/ Commit

SpecStore == InitStore /\ [][NextStore]_vars

\* what the table says of its records: URL, fingerprint, content
Records(rows) ==
    [k \in 1..Len(rows) |->
        [url |-> rows[k].url, content_hash |-> rows[k].content_hash,
         content |-> rows[k].content]]

\* C15: for the article just handled, with the stored records looked up by
\* URL and by fingerprint independently: no match by either adds a record; a
\* record with the article's URL and another fingerprint is overwritten with
\* the article's content and fingerprint, whatever other records exist; else
\* (same URL and same fingerprint, or the fingerprint under another URL only)
\* the records are unchanged
C15_Classification ==
    store.pc # "none" /\ store.last # None =>
        LET a == store.last[1]
            h == GenerateContentHash(a.title, a.content)
            old == Records(store.before)
            new == Records(store.rows)
            byUrl == {k \in 1..Len(old) : old[k].url = a.url}
            byHash == {k \in 1..Len(old) : old[k].content_hash = h}
        IN IF byUrl = {} /\ byHash = {}
           THEN new = Append(old, [url |-> a.url, content_hash |-> h, content |-> a.content])
           ELSE IF \E k \in byUrl : old[k].content_hash # h
                THEN \E k \in byUrl :
                        new = [old EXCEPT ![k].content_hash = h, ![k].content = a.content]
                ELSE new = old

\* C16: no two records of the table have the same fingerprint, and no two
\* have the same URL
C16_NoTwoRecordsAlike ==
    store.pc # "none" =>
        \A i, j \in 1..Len(store.rows) :
            i # j => /\ store.rows[i].content_hash # store.rows[j].content_hash
                     /\ store.rows[i].url # store.rows[j].url

----------------------------------------------------------------------------
(* Relevance scoring: AIService.match_criteria, ai_service.py 123-230, and  *)
(* the task that calls it for every article and criterion,                  *)
(* calculate_relevance_scores_task, celery_worker.py 238-283.  Texts are    *)
(* sequences of characters; a score is the fraction num/den                 *)

MaxKeywords == 2
FuzzyThreshold == 85
FuzzyMinLen == 3
PromptMinLen == 2
FuzzyWeightTenths == 7
BoostTenths == 12

\* a Python value that is a str, or one that is not (None, a number)
StrVal(text) == [str |-> TRUE, text |-> text]
NotStr == [str |-> FALSE, text |-> <<>>]

Punctuation == {"!", ".", "-"}

\* `re.sub(pattern, ' ', text)` for a pattern that matches the characters of S
ToBlank(text, S) == [i \in 1..Len(text) |-> IF text[i] \in S THEN " " ELSE text[i]]

\* str.split()
RECURSIVE SplitWords(_)
SplitWords(text) ==
    LET t == LStrip(text)
    IN IF t = <<>> THEN <<>>
       ELSE LET n == CHOOSE k \in 1..Len(t) :
                        /\ \A i \in 1..k : t[i] \notin Blank
                        /\ (k = Len(t) \/ t[k + 1] \in Blank)
            IN <<SubSeq(t, 1, n)>> \o SplitWords(SubSeq(t, n + 1, Len(t)))

\* ' '.join(words)
RECURSIVE JoinWords(_)
JoinWords(words) ==
    IF words = <<>> THEN <<>>
    ELSE IF Len(words) = 1 THEN Head(words)
    ELSE Head(words) \o <<" ">> \o JoinWords(Tail(words))

\* str.strip(chars)
RECURSIVE StripChars(_, _)
StripChars(text, S) ==
    IF text # <<>> /\ Head(text) \in S THEN StripChars(Tail(text), S)
    ELSE IF text # <<>> /\ text[Len(text)] \in S
         THEN StripChars(SubSeq(text, 1, Len(text) - 1), S)
         ELSE text

\* length of a longest common subsequence
RECURSIVE LCS(_, _)
LCS(a, b) ==
    IF a = <<>> \/ b = <<>> THEN 0
    ELSE IF Head(a) = Head(b) THEN 1 + LCS(Tail(a), Tail(b))
    ELSE LET x == LCS(Tail(a), b)
             y == LCS(a, Tail(b))
         IN IF x > y THEN x ELSE y

\* fuzz.ratio(a, b): 0 for an empty string, else 100 * 2M / (len(a) + len(b))
\* rounded, M being the number of matching characters
Ratio(a, b) ==
    IF a = <<>> \/ b = <<>> THEN 0
    ELSE LET T == Len(a) + Len(b)
         IN (400 * LCS(a, b) + T) \div (2 * T)

\* lines 147-150
ArticleTextNormalized(title, summary) ==
    ToBlank(Lower((IF title.str THEN title.text ELSE <<"n", "o", "n", "e">>)
                     \o <<" ">> \o summary),
            Punctuation)

\* line 160
NormalizedKeyword(kw) == ToBlank(Strip(Lower(kw)), {"-", "_"})

\* the words of line 167-172 that the prompts of the model can contain
CommonWords == {<<"t", "h", "e">>, <<"a">>}

\* lines 174-177
RECURSIVE KeepKeywords(_)
KeepKeywords(words) ==
    IF words = <<>> THEN <<>>
    ELSE LET word == StripChars(Lower(Head(words)), Punctuation)
         IN IF Len(word) > PromptMinLen /\ word \notin CommonWords
            THEN <<word>> \o KeepKeywords(Tail(words))
            ELSE KeepKeywords(Tail(words))

PromptKeywords(prompt) == KeepKeywords(SplitWords(prompt))

\* lines 189-215 for one keyword
KeywordMatch(keyword, text) ==
    IF Contains(text, keyword) THEN "exact"
    ELSE LET article_words == SplitWords(text)
             keyword_words == SplitWords(keyword)
             n == Len(keyword_words)
         IN IF n > 1
            THEN IF \E i \in 0..(Len(article_words) - n) :
                       Ratio(keyword, JoinWords(SubSeq(article_words, i + 1, i + n)))
                           >= FuzzyThreshold
                 THEN "fuzzy" ELSE "none"
            ELSE IF \E k \in 1..Len(article_words) :
                       /\ Len(article_words[k]) > FuzzyMinLen
                       /\ Len(keyword) > FuzzyMinLen
                       /\ Ratio(keyword, article_words[k]) >= FuzzyThreshold
                 THEN "fuzzy" ELSE "none"

CountMatches(keywords, text, kind) ==
    Cardinality({k \in 1..Len(keywords) : KeywordMatch(keywords[k], text) = kind})

Truthy(optseq) == optseq # None /\ optseq[1] # <<>>

ScoreOf(m, f, n, num) ==
    [raised |-> FALSE, failed |-> FALSE, matched |-> m, fuzzy |-> f, total |-> n,
     num |-> num, den |-> 100 * n]

ZeroScore == [raised |-> FALSE, failed |-> FALSE, matched |-> 0, fuzzy |-> 0,
              total |-> 0, num |-> 0, den |-> 100]

\* the `except Exception` of lines 228-230
FailedScore == [ZeroScore EXCEPT !.failed = TRUE]

\* an exception that leaves match_criteria
RaisedScore == [ZeroScore EXCEPT !.raised = TRUE]

BoostUncapped(weighted, n) == BoostTenths * weighted

\* line 223: min(score * 1.2, 1.0), in hundredths of 1/n
Boost(weighted, n) ==
    IF BoostTenths * weighted < 100 * n THEN BoostTenths * weighted ELSE 100 * n

\* the statements of the try block that can raise: kw.lower() on a keyword
\* that is not a str (line 160), and article_title[:50] on a title that is
\* not a str (line 225)
BodyRaises(title, keywords, prompt) ==
    /\ Truthy(keywords) \/ Truthy(prompt)
    /\ \/ Truthy(keywords) /\ \E k \in 1..Len(keywords[1]) : ~keywords[1][k].str
       \/ /\ ~title.str
          /\ (IF Truthy(keywords)
              THEN [k \in 1..Len(keywords[1]) |-> NormalizedKeyword(keywords[1][k].text)]
              ELSE <<>>)
               \o (IF Truthy(prompt) THEN PromptKeywords(prompt[1]) ELSE <<>>) # <<>>

BodyScoreBoostSingle(title, summary, keywords, prompt) ==
    IF ~Truthy(keywords) /\ ~Truthy(prompt) THEN ZeroScore
    ELSE LET text == ArticleTextNormalized(title, summary)
             all_keywords ==
                 (IF Truthy(keywords)
                  THEN [k \in 1..Len(keywords[1]) |-> NormalizedKeyword(keywords[1][k].text)]
                  ELSE <<>>)
                   \o (IF Truthy(prompt) THEN PromptKeywords(prompt[1]) ELSE <<>>)
             n == Len(all_keywords)
             matched_count == CountMatches(all_keywords, text, "exact")
             fuzzy_matched == CountMatches(all_keywords, text, "fuzzy")
             weighted == 10 * matched_count + FuzzyWeightTenths * fuzzy_matched
         IN IF n = 0 THEN ZeroScore
            ELSE ScoreOf(matched_count, fuzzy_matched, n,
                         IF matched_count > 0 THEN Boost(weighted, n) ELSE 10 * weighted)

\* lines 143-226 when nothing raises
BodyScore(title, summary, keywords, prompt) ==
    IF ~Truthy(keywords) /\ ~Truthy(prompt) THEN ZeroScore
    ELSE LET text == ArticleTextNormalized(title, summary)
             all_keywords ==
                 (IF Truthy(keywords)
                  THEN [k \in 1..Len(keywords[1]) |-> NormalizedKeyword(keywords[1][k].text)]
                  ELSE <<>>)
                   \o (IF Truthy(prompt) THEN PromptKeywords(prompt[1]) ELSE <<>>)
             n == Len(all_keywords)
             matched_count == CountMatches(all_keywords, text, "exact")
             fuzzy_matched == CountMatches(all_keywords, text, "fuzzy")
             weighted == 10 * matched_count + FuzzyWeightTenths * fuzzy_matched
         IN IF n = 0 THEN ZeroScore
            ELSE ScoreOf(matched_count, fuzzy_matched, n,
                         IF matched_count > 1 THEN Boost(weighted, n) ELSE 10 * weighted)

MatchCriteriaUnguarded(title, summary, keywords, prompt) ==
    IF BodyRaises(title, keywords, prompt) THEN RaisedScore
    ELSE BodyScore(title, summary, keywords, prompt)

\* match_criteria: the whole body is inside try / except Exception
MatchCriteria(title, summary, keywords, prompt) ==
    IF BodyRaises(title, keywords, prompt) THEN FailedScore
    ELSE BodyScore(title, summary, keywords, prompt)

\* the articles and criteria of the model
ArticleTitles == {StrVal(<<"A", "b", "c", "a", "b">>), StrVal(<<"a", "b", "a", "b">>), NotStr}
ArticleSummaries == {<<>>, <<"a", "b", " ", "a", "b", "!">>, <<"a", "b", "a", "b", " ", "c">>}
KeywordValues == {StrVal(<<"a", "b", "c", "a", "b">>), StrVal(<<"a", "b", "-", "a", "b">>), StrVal(<<"a", "b", "a", "b">>), StrVal(<<"c", "c", "c">>), NotStr}
Prompts == {None, Some(<<>>), Some(<<"t", "h", "e", " ", "a", "b", "c", "a", "b", ".">>)}

ScoredArticle(title, summary) == [title |-> title, summary |-> summary]
CriteriaRow(keywords, prompt) == [keywords |-> keywords, prompt |-> prompt]

ScoredArticles == {ScoredArticle(t, x) : t \in ArticleTitles, x \in ArticleSummaries}
LaterArticles == {ScoredArticle(StrVal(<<"a", "b", "c", "a", "b">>), x) : x \in ArticleSummaries}

CriteriaRows ==
    {CriteriaRow(k, q) :
        k \in {None} \cup {Some(l) : l \in SeqsUpTo(KeywordValues, MaxKeywords)},
        q \in Prompts}
LaterCriteria == {CriteriaRow(Some(<<StrVal(<<"a", "b", "c", "a", "b">>)>>), None),
                  CriteriaRow(None, Some(<<"t", "h", "e", " ", "a", "b", "c", "a", "b", ".">>))}

\* lines 258-269: the next (article, criteria) pair is scored; an exception
\* out of match_criteria would end the task at line 278 without a commit
ScorePair ==
    /\ call.fn = "calculate_relevance_scores"
    /\ call.status = "running"
    /\ call.i <= Len(call.articles)
    /\ LET article == call.articles[call.i]
           criteria == call.criteria[call.j]
           score == MatchCriteria(article.title, article.summary,
                                  criteria.keywords, criteria.prompt)
           last == call.j = Len(call.criteria)
       IN call' = IF score.raised
                  THEN [call EXCEPT !.status = "error"]
                  ELSE [call EXCEPT !.scores = Append(@, score),
                                    !.j = IF last THEN 1 ELSE @ + 1,
                                    !.i = IF last THEN @ + 1 ELSE @]
    /\ UNCHANGED <<app, crawlVars, store, task>>

\* line 273: db.commit() after the last article
ScoresCommit ==
    /\ call.fn = "calculate_relevance_scores"
    /\ call.status = "running"
    /\ call.i > Len(call.articles)
    /\ call' = [call EXCEPT !.status = "done"]
    /\ UNCHANGED <<app, crawlVars, store, task>>

InitScores ==
    /\ site = [u \in URLs |-> ErrorPage]
    /\ InitCrawl
    /\ store = NoStore
    /\ task = NoTask
    /\ app = NoApp
    /\ call \in {[fn |-> "calculate_relevance_scores", status |-> "running",
                  articles |-> <<a1, a2>>, criteria |-> <<c1, c2>>,
                  i |-> 1, j |-> 1, scores |-> <<>>] :
                    a1 \in ScoredArticles, a2 \in LaterArticles,
                    c1 \in CriteriaRows, c2 \in LaterCriteria}

NextScores == ScorePair \/ ScoresCommit

SpecScores == InitScores /\ [][NextScores]_vars

\* C17: every score match_criteria returns is at least 0 and at most 1, and
\* the weighted match count is at most the number of keywords
C17_ScoreInUnitInterval ==
    call.fn = "calculate_relevance_scores" =>
        \A k \in 1..Len(call.scores) :
            LET r == call.scores[k]
            IN /\ 0 <= r.num
               /\ r.num <= r.den
               /\ 10 * r.matched + 7 * r.fuzzy <= 10 * r.total \/ r.total = 0

\* a score that the boost would have taken above 1 and that is exactly 1,
\* next to one made of a fuzzy match
C17_Witness ==
    /\ call.fn = "calculate_relevance_scores"
    /\ \E k \in 1..Len(call.scores) :
          /\ call.scores[k].matched = 2
          /\ call.scores[k].total = 2
          /\ call.scores[k].num = call.scores[k].den
    /\ \E k \in 1..Len(call.scores) : call.scores[k].fuzzy = 1

\* the pair whose score the task recorded as number k
PairOf(k) ==
    [article |-> call.articles[((k - 1) \div Len(call.criteria)) + 1],
     criteria |-> call.criteria[((k - 1) % Len(call.criteria)) + 1]]

\* C18: no exception leaves match_criteria, so the task is never ended by
\* one; a pair whose scoring fails inside match_criteria gets the score 0,
\* and the task goes on to the pairs after it and commits
C18_NeverRaises ==
    call.fn = "calculate_relevance_scores" =>
        /\ call.status # "error"
        /\ \A k \in 1..Len(call.scores) :
              /\ ~call.scores[k].raised
              /\ BodyRaises(PairOf(k).article.title, PairOf(k).criteria.keywords,
                            PairOf(k).criteria.prompt)
                    => call.scores[k].num = 0
        /\ call.status = "done" =>
              Len(call.scores) = Len(call.articles) * Len(call.criteria)

\* the first pair failed on a keyword that is not a string, got 0, and the
\* task scored the pairs after it and committed
C18_Witness ==
    /\ call.fn = "calculate_relevance_scores"
    /\ call.status = "done"
    /\ call.articles[1].title.str
    /\ call.criteria[1].keywords = Some(<<NotStr>>)
    /\ call.scores[1].failed
    /\ call.scores[1].num = 0
    /\ call.scores[4].num > 0

----------------------------------------------------------------------------
(* Host extraction from the text of a URL: _extract_domain and              *)
(* _is_same_domain, scraper.py 232-246, with urlparse as CPython's          *)
(* urllib.parse.urlsplit computes the netloc.  A URL text is a sequence of  *)
(* characters put together from a scheme part, a "//" or nothing, an        *)
(* authority part and a tail                                                *)

SchemeParts == {<<>>, <<"h", ":">>, <<":">>, <<"8", ":">>}
SlashParts == {<<>>, <<"/", "/">>}
AuthorityParts == {<<>>, <<"a">>, <<"a", ".", "a">>, <<"a", ":", "8">>, <<"a", " ", "a">>, <<"[", "a">>, <<":", "8">>}
TailParts == {<<>>, <<"/", "a">>, <<"?", "a">>}

UrlParts(scheme, slashes, authority, tail) ==
    [scheme |-> scheme, slashes |-> slashes, authority |-> authority, tail |-> tail]

UrlText(parts) == parts.scheme \o parts.slashes \o parts.authority \o parts.tail

AsciiLetters == {"h", "a"}
SchemeChars == {"h", "a", "8", "."}
NetlocDelimiters == {"/", "?", "#"}

\* urlsplit: the scheme is the text before the first ":" when that text
\* starts with a letter and is made of scheme characters; 0 when there is none
SchemeColon(text) ==
    IF \E i \in 1..Len(text) : text[i] = ":"
    THEN LET i == CHOOSE k \in 1..Len(text) :
                     text[k] = ":" /\ \A j \in 1..(k - 1) : text[j] # ":"
         IN IF i > 1 /\ text[1] \in AsciiLetters /\ \A j \in 1..(i - 1) : text[j] \in SchemeChars
            THEN i ELSE 0
    ELSE 0

AfterScheme(text) == SubSeq(text, SchemeColon(text) + 1, Len(text))

HasNetloc(text) ==
    LET rest == AfterScheme(text)
    IN Len(rest) >= 2 /\ rest[1] = "/" /\ rest[2] = "/"

\* _splitnetloc: from after the "//" up to the first of "/", "?", "#"
Netloc(text) ==
    LET rest == AfterScheme(text)
        stops == {k \in 3..Len(rest) : rest[k] \in NetlocDelimiters}
        delim == IF stops = {} THEN Len(rest) + 1
                 ELSE CHOOSE k \in stops : \A j \in stops : k <= j
    IN IF HasNetloc(text) THEN SubSeq(rest, 3, delim - 1) ELSE <<>>

\* urlsplit raises ValueError("Invalid IPv6 URL") for a netloc with a "["
\* and no "]"
UrlParseRaises(text) ==
    /\ HasNetloc(text)
    /\ \E k \in 1..Len(Netloc(text)) : Netloc(text)[k] = "["
    /\ \A k \in 1..Len(Netloc(text)) : Netloc(text)[k] # "]"

DomainResult(raised, netloc) == [raised |-> raised, netloc |-> netloc]

ExtractDomainUnguarded(text) ==
    IF UrlParseRaises(text) THEN DomainResult(TRUE, <<>>)
    ELSE DomainResult(FALSE, Netloc(text))

\* _extract_domain, lines 232-238: parsed.netloc, "" on any exception
ExtractDomainOf(text) ==
    IF UrlParseRaises(text) THEN DomainResult(FALSE, <<>>)
    ELSE DomainResult(FALSE, Netloc(text))

\* _is_same_domain, lines 240-246
IsSameDomainOf(text, domain) == ExtractDomainOf(text).netloc = domain

DomainCall ==
    /\ call.fn = "_extract_domain"
    /\ ~call.done
    /\ call' = [call EXCEPT !.done = TRUE,
                   !.ret = ExtractDomainOf(UrlText(call.arg)),
                   !.same = {d \in AuthorityParts : IsSameDomainOf(UrlText(call.arg), d)}]
    /\ UNCHANGED <<app, crawlVars, store, task>>

InitDomain ==
    /\ site = [u \in URLs |-> ErrorPage]
    /\ InitCrawl
    /\ store = NoStore
    /\ task = NoTask
    /\ app = NoApp
    /\ call \in {[fn |-> "_extract_domain", arg |-> UrlParts(x, l, a, t), done |-> FALSE,
                  ret |-> DomainResult(FALSE, <<>>), same |-> {}] :
                    x \in SchemeParts, l \in SlashParts, a \in AuthorityParts,
                    t \in TailParts}

NextDomain == DomainCall

SpecDomain == InitDomain /\ [][NextDomain]_vars

\* a host name, with or without a port
ValidAuthorities == {<<"a">>, <<"a", ".", "a">>, <<"a", ":", "8">>}

\* scheme, "//", host and optional port, then a path or a query or nothing
WellFormed(parts) ==
    /\ parts.scheme = <<"h", ":">>
    /\ parts.slashes = <<"/", "/">>
    /\ parts.authority \in ValidAuthorities

\* not the syntax of any URL: a broken scheme, or a character in the
\* authority that no URL may have there
Malformed(parts) ==
    \/ parts.scheme \in {<<":">>, <<"8", ":">>}
    \/ parts.authority \in {<<"a", " ", "a">>, <<"[", "a">>}

----------------------------------------------------------------------------
(* Enrichment: AIService.batch_process_articles, ai_service.py 288-326,     *)
(* with summarize_article (21-63) and categorize_article (65-121).  What    *)
(* the remote model answers, and whether the request fails, is the          *)
(* environment's choice at every call.  An article is the dict the crawl    *)
(* made (scraper.py 220-225); None stands for a key the dict does not have  *)

MaxArticles == 2
SummaryFallbackLen == 200

Ellipsis == <<".", ".", ".">>

\* a body of n characters whose last character differs from the others
Body(n) == [k \in 1..n |-> IF k = n THEN "z" ELSE "a"]

ArticleDict(url, title, content) ==
    [url |-> url, title |-> title, content |-> content,
     summary |-> None, categories |-> None, tags |-> None]

\* the request of summarize_article: answered, or failed (the client raises,
\* or the answer has no text)
SummarizeOutcomes == {"ok", "raise"}
\* the request of categorize_article: a JSON object with both keys, a JSON
\* object without them, JSON that is not an object, or failed (the client
\* raises, or the text is not JSON)
CategorizeOutcomes == {"ok", "partial", "notobject", "raise"}

ModelSummary == <<"s">>
ModelCategories == <<"Politics">>
ModelTags == <<"vote">>

SummarizeArticleUnguarded(title, content, outcome) ==
    IF outcome = "ok" THEN [raised |-> FALSE, value |-> ModelSummary]
    ELSE [raised |-> TRUE, value |-> <<>>]

\* summarize_article: the answer's text, or on any exception (lines 61-63)
\* content[:200] + "..."
SummarizeArticle(title, content, outcome) ==
    IF outcome = "ok" THEN [raised |-> FALSE, value |-> ModelSummary]
    ELSE [raised |-> FALSE, value |-> Prefix(content, SummaryFallbackLen) \o Ellipsis]

\* categorize_article: what json.loads gave, or on any exception (lines
\* 119-121) {"categories": [], "tags": []}
CategorizeArticle(title, content, summary, outcome) ==
    CASE outcome = "ok" ->
           [kind |-> "dict", categories |-> Some(ModelCategories), tags |-> Some(ModelTags)]
      [] outcome = "partial" ->
           [kind |-> "dict", categories |-> None, tags |-> None]
      [] outcome = "notobject" ->
           [kind |-> "list", categories |-> None, tags |-> None]
      [] OTHER ->
           [kind |-> "dict", categories |-> Some(<<>>), tags |-> Some(<<>>)]

\* lines 301-324 for one article: the three keys are set in turn; an
\* exception (a summary call that raised, `.get` on an answer that is not a
\* dict) leaves the keys set so far and the article is appended all the same
EnrichedArticle(article, so, co) ==
    LET summary == SummarizeArticle(article.title, article.content, so)
        categorization ==
            CategorizeArticle(article.title, article.content, summary.value, co)
    IN IF summary.raised THEN article
       ELSE IF categorization.kind # "dict"
            THEN [article EXCEPT !.summary = Some(summary.value)]
            ELSE [article EXCEPT
                     !.summary = Some(summary.value),
                     !.categories = Some(OrDefault(categorization.categories, <<>>)),
                     !.tags = Some(OrDefault(categorization.tags, <<>>))]

\* the requests one iteration sends to the remote model
EnrichRequests(k, article, so, co) ==
    <<[op |-> "summarize", article |-> k, outcome |-> so]>>
      \o (IF SummarizeArticle(article.title, article.content, so).raised THEN <<>>
          ELSE <<[op |-> "categorize", article |-> k, outcome |-> co]>>)

\* batch_process_articles(articles) at its first statement, as the n-th job
BatchCall(batch, n) ==
    [fn |-> "batch_process_articles", status |-> "running", job |-> n,
     articles |-> batch, processed |-> <<>>, log |-> <<>>]

\* lines 300-324: one iteration of the loop
EnrichArticle ==
    /\ call.fn = "batch_process_articles"
    /\ call.status = "running"
    /\ Len(call.processed) < Len(call.articles)
    /\ \E so \in SummarizeOutcomes, co \in CategorizeOutcomes :
          LET k == Len(call.processed) + 1
              article == call.articles[k]
          IN call' = [call EXCEPT
                         !.processed = Append(@, EnrichedArticle(article, so, co)),
                         !.log = @ \o EnrichRequests(k, article, so, co)]
    /\ UNCHANGED <<app, crawlVars, store, task>>

\* line 326: return processed
BatchReturn ==
    /\ call.fn = "batch_process_articles"
    /\ call.status = "running"
    /\ Len(call.processed) = Len(call.articles)
    /\ call' = [call EXCEPT !.status = "returned"]
    /\ UNCHANGED <<app, crawlVars, store, task>>

EnrichContents == {<<>>, Body(SummaryFallbackLen), Body(SummaryFallbackLen + 1)}

EnrichArticles ==
    {ArticleDict(Url(HostA, "/1"), <<"T">>, c) : c \in EnrichContents}
      \cup {ArticleDict(Url(HostA, "/2"), <<"T">>, Body(SummaryFallbackLen + 1))}

InitEnrich ==
    /\ site = [u \in URLs |-> ErrorPage]
    /\ InitCrawl
    /\ store = NoStore
    /\ task = NoTask
    /\ app = NoApp
    /\ call \in {BatchCall(b, 1) : b \in SeqsUpTo(EnrichArticles, MaxArticles)}

NextEnrich == EnrichArticle \/ BatchReturn

SpecEnrich == InitEnrich /\ [][NextEnrich]_vars

\* the request `op` sent for the k-th article failed
RequestFailed(k, op) ==
    \E n \in 1..Len(call.log) :
        /\ call.log[n].article = k
        /\ call.log[n].op = op
        /\ call.log[n].outcome = "raise"

\* text is the first characters of body, all of them or the first 200,
\* followed by an ellipsis
IsTruncatedPrefix(text, body) ==
    \E n \in 0..Len(body) :
        /\ n = Len(body) \/ n = SummaryFallbackLen
        /\ n <= SummaryFallbackLen
        /\ text = SubSeq(body, 1, n) \o Ellipsis

\* C21: batch_process_articles returns the articles it was given, as many
\* and in the same order, whichever requests fail; an article whose summary
\* request failed has as summary a truncated prefix of its body, and one
\* whose categorisation request failed has empty categories and tags lists
C21_EnrichmentFallback ==
    call.fn = "batch_process_articles" =>
        /\ Len(call.processed) <= Len(call.articles)
        /\ call.status = "returned" => Len(call.processed) = Len(call.articles)
        /\ \A k \in 1..Len(call.processed) :
              LET given == call.articles[k]
                  out == call.processed[k]
              IN /\ out.url = given.url
                 /\ out.title = given.title
                 /\ out.content = given.content
                 /\ RequestFailed(k, "summarize") =>
                       /\ out.summary # None
                       /\ IsTruncatedPrefix(out.summary[1], given.content)
                 /\ RequestFailed(k, "categorize") =>
                       out.categories = Some(<<>>) /\ out.tags = Some(<<>>)

\* a batch of two came back: every request of the first article failed and
\* its body was cut at 200 characters, the second article was enriched
C21_Witness ==
    /\ call.fn = "batch_process_articles"
    /\ call.status = "returned"
    /\ Len(call.processed) = 2
    /\ RequestFailed(1, "summarize") /\ RequestFailed(1, "categorize")
    /\ Len(call.articles[1].content) > SummaryFallbackLen
    /\ Len(call.processed[1].summary[1]) = SummaryFallbackLen + Len(Ellipsis)
    /\ call.processed[2].summary = Some(ModelSummary)
    /\ call.processed[2].categories = Some(ModelCategories)

----------------------------------------------------------------------------
(* scrape_url_task after its crawl, celery_worker.py 117-166, as handed     *)
(* the list of crawled articles: the enrichment of line 119, then the loop  *)
(* of lines 124-166 that classifies and saves                               *)

MaxRuns == 2

JobBatches ==
    {b \in ArticleBatches : \A k \in 1..Len(b) : b[k].content \in {<<"a">>, <<"!">>}}

AsDicts(batch) ==
    [k \in 1..Len(batch) |-> ArticleDict(batch[k].url, batch[k].title, batch[k].content)]

\* line 119: every crawled article is handed to batch_process_articles
JobEnrich(batch) ==
    /\ store.pc = "idle"
    /\ store.jobs < MaxRuns
    /\ call = NoCall \/ (call.fn = "batch_process_articles" /\ call.job = store.jobs)
    /\ call' = BatchCall(AsDicts(batch), store.jobs + 1)
    /\ UNCHANGED <<app, crawlVars, store, task>>

\* lines 119-123: the enriched list is the list the loop goes through
JobSave ==
    /\ call.fn = "batch_process_articles"
    /\ call.status = "returned"
    /\ call.job = store.jobs + 1
    /\ StartJob(call.processed)

InitJob == InitStore

NextJob ==
    \/ \E batch \in JobBatches : JobEnrich(batch)
    \/ EnrichArticle
    \/ BatchReturn
    \/ JobSave
    \/ SaveNew
    \/ SaveExisting
    \/ Commit

SpecJob == InitJob /\ [][NextJob]_vars

\* the enrichment requests sent for the k-th article of the job
RequestsFor(k, op) ==
    {n \in 1..Len(call.log) : call.log[n].article = k /\ call.log[n].op = op}

\* how the loop has classified the k-th article of the job, if it has
ClassOf(k) ==
    IF store.jobs = call.job /\ k <= Len(store.classes) THEN store.classes[k]
    ELSE "unclassified"

\* C22: in a scrape job an enrichment request is sent for an article only
\* once the article has been classified, and only when it was classified as
\* new; when the job has saved its articles, each article classified as new
\* has had exactly one summary request
C22_EnrichOnlyNew ==
    call.fn = "batch_process_articles" =>
        /\ \A k \in 1..Len(call.articles) :
              RequestsFor(k, "summarize") \cup RequestsFor(k, "categorize") # {}
                  => ClassOf(k) = "new"
        /\ store.jobs = call.job /\ store.pc = "idle" =>
              \A k \in 1..Len(call.articles) :
                  ClassOf(k) = "new" => Cardinality(RequestsFor(k, "summarize")) = 1

----------------------------------------------------------------------------
(* Further properties of one crawl session *)

BudgetReached(s) ==
    pc[s] = "running" /\ Len(articles[s]) >= args[s].max_pages

\* C23: once the article list of a session holds max_pages articles, the
\* session issues no further request: no step taken from then on adds a
\* request of that session to the log
C23_NoFetchAfterBudget ==
    [][\A s \in Sessions : BudgetReached(s) => SessionLog(s)' = SessionLog(s)]_vars

\* the budget is reached while two activations, one called by the other,
\* each still have a link of their list to recurse into
C23_Witness ==
    /\ BudgetReached(Solo)
    /\ \E j, k \in 1..Len(stack[Solo]) :
          /\ j < k
          /\ \A n \in {j, k} :
                /\ stack[Solo][n].phase = "loop"
                /\ stack[Solo][n].idx <= Len(FirstN(stack[Solo][n].links, LinkCap))
                /\ stack[Solo][n].links[stack[Solo][n].idx] \notin FetchedUrls(Solo)

----------------------------------------------------------------------------
(* Crawl sessions on a web with several hosts: the seed's host, one of its  *)
(* subdomains, a foreign host, and URLs whose netloc is empty.  A URL with  *)
(* an empty netloc is written with its scheme in the path when the scheme   *)
(* is not http ("mailto:a@b"); with the http scheme ("http:///1") the       *)
(* answer to its request is the environment's                               *)

NoHost == ""
MailTo == Url(NoHost, "mailto:a@b")

HostNames == {HostA, HostNews, HostB, NoHost}
HostURLs == {Url(h, p) : h \in HostNames, p \in {"/", "/1"}} \cup {MailTo}
HostSeeds == {Url(HostA, "/"), Url(HostNews, "/"), Url(NoHost, "/")}

\* anchors to a subdomain, to a mailto address, to a page of the same
\* site, to a foreign host and to the bare domain
MixedLinks ==
    <<Abs(HostNews, "/1"), Abs(NoHost, "mailto:a@b"), Rel("/1"), Abs(HostB, "/"),
      Abs(HostA, "/1")>>

\* client.get raises UnsupportedProtocol for a URL that is not http(s)
HostSites ==
    {s \in [HostURLs -> {Page("ok", "T", 101, MixedLinks), LeafPage, ErrorPage,
                         Page("ok", "T", 101, BrokenLinks)}] :
        /\ s[MailTo] = ErrorPage
        /\ \A h \in HostNames :
              /\ s[Url(h, "/")] \in {Page("ok", "T", 101, MixedLinks), ErrorPage}
              /\ s[Url(h, "/1")] \in {LeafPage, Page("ok", "T", 101, BrokenLinks)}
        /\ s[Url(HostB, "/")] = ErrorPage
        /\ s[Url(HostB, "/1")] = LeafPage}

InitHosts ==
    /\ site \in HostSites
    /\ InitCrawl
    /\ call = NoCall
    /\ store = NoStore
    /\ task = NoTask
    /\ app = NoApp

NextHosts ==
    \/ \E url \in HostSeeds, d \in DepthArgs, p \in PagesArgs :
          StartSession(Solo, "w1", url, d, p)
    \/ Step(Solo)

SpecHosts == InitHosts /\ [][NextHosts]_vars

\* the requests of a session other than the one for its seed
LinkRequests(s) == {e \in Range(SessionLog(s)) : e.depth > 0}

\* C24: the first request of a session is for its seed, and every other
\* URL it requests has the seed's host identifier: no URL of another host,
\* a subdomain of the seed's host included, is requested
C24_SameHostOnly ==
    \A s \in Sessions :
        /\ \A e \in Range(SessionLog(s)) : e.depth = 0 => e.url = args[s].url
        /\ \A e \in LinkRequests(s) :
              ExtractDomain(e.url) = ExtractDomain(args[s].url)

\* a finished session whose seed page links to a subdomain and to a foreign
\* host, and that requested a link of that page
C24_Witness ==
    /\ pc[Solo] = "done"
    /\ args[Solo].url = Url(HostA, "/")
    /\ site[args[Solo].url] = Page("ok", "T", 101, MixedLinks)
    /\ Url(HostA, "/1") \in FetchedUrls(Solo)
    /\ Url(HostNews, "/1") \notin FetchedUrls(Solo)
    /\ Url(HostB, "/") \notin FetchedUrls(Solo)

----------------------------------------------------------------------------
(* The arithmetic of the relevance score *)

\* the keywords match_criteria builds from the criteria of the k-th score
KeywordsOf(k) ==
    LET c == PairOf(k).criteria
    IN (IF Truthy(c.keywords)
        THEN [n \in 1..Len(c.keywords[1]) |-> NormalizedKeyword(c.keywords[1][n].text)]
        ELSE <<>>)
         \o (IF Truthy(c.prompt) THEN PromptKeywords(c.prompt[1]) ELSE <<>>)

\* how many of them occur in the normalised text of the article
ExactMatches(k) ==
    LET text == ArticleTextNormalized(PairOf(k).article.title, PairOf(k).article.summary)
    IN Cardinality({n \in 1..Len(KeywordsOf(k)) : Contains(text, KeywordsOf(k)[n])})

Least(a, b) == IF a < b THEN a ELSE b

\* C26: a score computed from n > 0 keywords is (exact + 0.7 * fuzzy) / n,
\* times 1.2 and capped at 1 exactly when exact > 1; exact is the number of
\* keywords that occur in the text, and a keyword counted as exact is not
\* counted as fuzzy.  Scores are num / (100 * n)
C26_ScoreFormula ==
    call.fn = "calculate_relevance_scores" =>
        \A k \in 1..Len(call.scores) :
            LET r == call.scores[k]
                weighted == 10 * r.matched + 7 * r.fuzzy
            IN ~r.failed /\ r.total > 0 =>
                  /\ r.total = Len(KeywordsOf(k))
                  /\ r.den = 100 * r.total
                  /\ r.matched = ExactMatches(k)
                  /\ r.matched + r.fuzzy <= r.total
                  /\ r.num = IF r.matched > 1
                             THEN Least(12 * weighted, 100 * r.total)
                             ELSE 10 * weighted

\* a score of two exact matches out of three keywords, boosted to 0.8 and
\* not capped, next to a score of one exact and one fuzzy match, not boosted
C26_Witness ==
    /\ call.fn = "calculate_relevance_scores"
    /\ \E k \in 1..Len(call.scores) :
          /\ call.scores[k].matched = 2
          /\ call.scores[k].total = 3
          /\ call.scores[k].num = 240
    /\ \E k \in 1..Len(call.scores) :
          /\ call.scores[k].matched = 1
          /\ call.scores[k].fuzzy = 1
          /\ call.scores[k].num = 170

----------------------------------------------------------------------------
(* Scheduling of scrape jobs: POST /scrape (trigger_scrape, main.py         *)
(* 384-412), the Celery queue, scrape_all_urls_task (celery_worker.py       *)
(* 206-235) and the start and end of scrape_url_task (48-77, 172-200).      *)
(* celery_app.conf sets no concurrency, so a worker runs one pool process   *)
(* per core; the model has two                                              *)

MaxQueue == 2
MaxJobRows == 3

Workers == {"k1", "k2"}

\* the urls table: id 1 a tracked site, id 2 a subdomain found for it
UrlRows ==
    (1 :> [is_subdomain |-> FALSE, is_active |-> TRUE])
      @@ (2 :> [is_subdomain |-> TRUE, is_active |-> TRUE])

\* the ids a request can name; 3 is not in the table
RequestedIds == {1, 2, 3}

ScrapeUrlMessage(url_id, discover) ==
    [name |-> "scrape_url", url_id |-> url_id, discover |-> discover]
ScrapeAllMessage == [name |-> "scrape_all_urls", url_id |-> 0, discover |-> FALSE]

\* the messages `scrape_url_task.delay(...)` sends for a list of ids, one for
\* each id that has a row
RECURSIVE MessagesFor(_)
MessagesFor(url_ids) ==
    IF url_ids = <<>> THEN <<>>
    ELSE LET url_id == Head(url_ids)
         IN (IF url_id \in DOMAIN UrlRows
             THEN <<ScrapeUrlMessage(url_id, ~UrlRows[url_id].is_subdomain)>>
             ELSE <<>>)
              \o MessagesFor(Tail(url_ids))

\* the ids of `db.query(URL).filter(URL.is_active == True).all()`
ActiveUrlIds == SelectSeq(<<1, 2>>, LAMBDA id : UrlRows[id].is_active)

\* trigger_scrape with request.url_ids, lines 390-405
TriggerScrape(url_ids) ==
    /\ app.pc = "serving"
    /\ url_ids # <<>>
    /\ Len(app.queue) + Len(MessagesFor(url_ids)) <= MaxQueue
    /\ app' = [app EXCEPT !.queue = @ \o MessagesFor(url_ids)]
    /\ UNCHANGED <<crawlVars, call, store, task>>

\* trigger_scrape without url_ids, lines 406-412
TriggerScrapeAll ==
    /\ app.pc = "serving"
    /\ Len(app.queue) < MaxQueue
    /\ app' = [app EXCEPT !.queue = Append(@, ScrapeAllMessage)]
    /\ UNCHANGED <<crawlVars, call, store, task>>

\* scrape_all_urls_task, lines 213-228, run by an idle worker process
ScrapeAllUrls(w) ==
    /\ app.pc = "serving"
    /\ app.workers[w] = 0
    /\ app.queue # <<>>
    /\ Head(app.queue).name = "scrape_all_urls"
    /\ Len(app.queue) - 1 + Len(ActiveUrlIds) <= MaxQueue
    /\ app' = [app EXCEPT !.queue = Tail(@) \o MessagesFor(ActiveUrlIds)]
    /\ UNCHANGED <<crawlVars, call, store, task>>

\* scrape_url_task, lines 59-77, run by an idle worker process: the row of
\* the URL is loaded and a job row is committed as "running"
ScrapeUrlStart(w) ==
    /\ app.pc = "serving"
    /\ app.workers[w] = 0
    /\ app.queue # <<>>
    /\ Head(app.queue).name = "scrape_url"
    /\ Len(app.jobs) < MaxJobRows
    /\ app' = [app EXCEPT
                  !.queue = Tail(@),
                  !.jobs = Append(@, [url_id |-> Head(app.queue).url_id,
                                      status |-> "running"]),
                  !.workers[w] = Len(app.jobs) + 1]
    /\ UNCHANGED <<crawlVars, call, store, task>>

\* how the row of a job is left when its task ends: "failed" by the handler
\* of lines 191-198, or still "running" when that handler's commit raises
JobRowOutcomes == {"failed", "running"}

\* the end of scrape_url_task
ScrapeUrlEnd(w) ==
    /\ app.pc = "serving"
    /\ app.workers[w] # 0
    /\ \E status \in JobRowOutcomes :
          app' = [app EXCEPT !.jobs[app.workers[w]].status = status,
                             !.workers[w] = 0]
    /\ UNCHANGED <<crawlVars, call, store, task>>

InitTrigger ==
    /\ site = [u \in URLs |-> ErrorPage]
    /\ InitCrawl
    /\ call = NoCall
    /\ store = NoStore
    /\ task = NoTask
    /\ app = [pc |-> "serving", queue |-> <<>>, jobs |-> <<>>,
              workers |-> [w \in Workers |-> 0]]

NextTrigger ==
    \/ \E url_ids \in SeqsUpTo(RequestedIds, MaxQueue) : TriggerScrape(url_ids)
    \/ TriggerScrapeAll
    \/ \E w \in Workers : ScrapeAllUrls(w) \/ ScrapeUrlStart(w) \/ ScrapeUrlEnd(w)

SpecTrigger == InitTrigger /\ [][NextTrigger]_vars

\* the jobs a worker process is executing
JobsInProgress == {app.workers[w] : w \in Workers} \ {0}

\* C27: no two job rows of the same URL are "running" at the same time, and
\* no two worker processes crawl the same URL at the same time
C27_OneRunningJobPerUrl ==
    app.pc = "serving" =>
        /\ \A i, j \in 1..Len(app.jobs) :
              (/\ i # j
               /\ app.jobs[i].status = "running"
               /\ app.jobs[j].status = "running")
                  => app.jobs[i].url_id # app.jobs[j].url_id
        /\ \A i, j \in JobsInProgress :
              i # j => app.jobs[i].url_id # app.jobs[j].url_id

----------------------------------------------------------------------------
(* When relevance scores are recomputed: the criteria endpoints (main.py    *)
(* 168-241), the storing of articles by a scrape job (celery_worker.py      *)
(* 151-166) and calculate_relevance_scores_task (238-283).  A criterion     *)
(* gets the next id of the table; the scores of an article are the set of   *)
(* criteria ids that are keys of its relevance_scores                       *)

MaxCriteria == 2
MaxStored == 2
MaxPending == 2

\* create_criteria, lines 179-190: the row is active by default and a
\* recalculation is queued
CreateCriteria ==
    /\ app.pc = "scoring"
    /\ Len(app.criteria) < MaxCriteria
    /\ app.pending < MaxPending
    /\ app' = [app EXCEPT !.criteria = Append(@, "active"), !.pending = @ + 1]
    /\ UNCHANGED <<crawlVars, call, store, task>>

\* update_criteria, lines 203-223: fields are replaced, is_active among
\* them, and a recalculation is queued
UpdateCriteria(id, is_active) ==
    /\ app.pc = "scoring"
    /\ id \in 1..Len(app.criteria)
    /\ app.criteria[id] # "deleted"
    /\ app.pending < MaxPending
    /\ app' = [app EXCEPT !.criteria[id] = IF is_active THEN "active" ELSE "inactive",
                          !.pending = @ + 1]
    /\ UNCHANGED <<crawlVars, call, store, task>>

\* delete_criteria, lines 234-241: the row is deleted; nothing is queued
DeleteCriteria(id) ==
    /\ app.pc = "scoring"
    /\ id \in 1..Len(app.criteria)
    /\ app.criteria[id] # "deleted"
    /\ app' = [app EXCEPT !.criteria[id] = "deleted"]
    /\ UNCHANGED <<crawlVars, call, store, task>>

\* scrape_url_task, lines 151-166: a new article is stored with the column
\* default of relevance_scores, {}; nothing is queued
StoreArticle ==
    /\ app.pc = "scoring"
    /\ Len(app.articles) < MaxStored
    /\ app' = [app EXCEPT !.articles = Append(@, {})]
    /\ UNCHANGED <<crawlVars, call, store, task>>

ActiveCriteria(criteria) == {id \in 1..Len(criteria) : criteria[id] = "active"}

\* calculate_relevance_scores_task, lines 249-252: a worker process takes a
\* queued recalculation and loads the active criteria and the articles
RecalcStart(w) ==
    /\ app.pc = "scoring"
    /\ app.pending > 0
    /\ app.recalc[w] = None
    /\ app' = [app EXCEPT
                  !.pending = @ - 1,
                  !.recalc[w] = Some([criteria |-> ActiveCriteria(app.criteria),
                                      articles |-> Len(app.articles)])]
    /\ UNCHANGED <<crawlVars, call, store, task>>

\* lines 258-273: every loaded article gets a dict with one key per loaded
\* criterion, and the commit writes them
RecalcCommit(w) ==
    /\ app.pc = "scoring"
    /\ app.recalc[w] # None
    /\ app' = [app EXCEPT
                  !.recalc[w] = None,
                  !.articles = [k \in 1..Len(app.articles) |->
                                   IF k <= app.recalc[w][1].articles
                                   THEN app.recalc[w][1].criteria
                                   ELSE app.articles[k]]]
    /\ UNCHANGED <<crawlVars, call, store, task>>

InitRecalc ==
    /\ site = [u \in URLs |-> ErrorPage]
    /\ InitCrawl
    /\ call = NoCall
    /\ store = NoStore
    /\ task = NoTask
    /\ app = [pc |-> "scoring", criteria |-> <<>>, articles |-> <<>>, pending |-> 0,
              recalc |-> [w \in Workers |-> None]]

NextRecalc ==
    \/ CreateCriteria
    \/ \E id \in 1..MaxCriteria, is_active \in BOOLEAN : UpdateCriteria(id, is_active)
    \/ \E id \in 1..MaxCriteria : DeleteCriteria(id)
    \/ StoreArticle
    \/ \E w \in Workers : RecalcStart(w) \/ RecalcCommit(w)

SpecRecalc == InitRecalc /\ [][NextRecalc]_vars

\* no recalculation is queued and none is running
NoRecalcAhead ==
    app.pending = 0 /\ \A w \in Workers : app.recalc[w] = None

\* C28: when no recalculation is queued or running any more, every article
\* holds a score for exactly the active criteria: each creation, update and
\* deletion of a criterion and each stored article has been followed by a
\* recalculation
C28_ScoresFollowChanges ==
    app.pc = "scoring" /\ NoRecalcAhead =>
        \A k \in 1..Len(app.articles) : app.articles[k] = ActiveCriteria(app.criteria)

----------------------------------------------------------------------------
(* The Redis cache (services/cache_service.py), the two endpoints that fill *)
(* it (main.py 301-348 and 435-467) and the end of a scrape job             *)
(* (celery_worker.py 175-179).  A cached value is the number of article     *)
(* rows it was computed from; every stored article matches the search text. *)
(* A key is the tuple of its parts between colons                           *)

MaxTable == 3
SearchText == "ab"
StatsKey == <<"stats">>
SearchKey(q) == <<"search", q>>
CacheKeys == {StatsKey, SearchKey(SearchText)}

\* redis KEYS with a pattern "<prefix>:*"
MatchesPattern(key, prefix) == Len(key) > 1 /\ key[1] = prefix

\* invalidate_articles_cache, lines 84-88
InvalidateArticlesCache(cache) ==
    [k \in CacheKeys |->
        IF MatchesPattern(k, "articles") \/ k = StatsKey THEN None ELSE cache[k]]

\* `if cached:` of line 312: a missing key and a cached empty list are both
\* taken as a miss
NonEmpty(cached) == IF cached = None THEN FALSE ELSE cached[1] > 0

\* search_articles, lines 310-314: a cached, non-empty result is returned
SearchHit ==
    /\ app.pc = "caching"
    /\ app.request = None
    /\ NonEmpty(app.cache[SearchKey(SearchText)])
    /\ app' = [app EXCEPT !.answer = app.cache[SearchKey(SearchText)]]
    /\ UNCHANGED <<crawlVars, call, store, task>>

\* lines 316-326: otherwise the table is queried
SearchQuery ==
    /\ app.pc = "caching"
    /\ app.request = None
    /\ ~NonEmpty(app.cache[SearchKey(SearchText)])
    /\ app' = [app EXCEPT !.request = Some([key |-> SearchKey(SearchText),
                                            value |-> app.articles])]
    /\ UNCHANGED <<crawlVars, call, store, task>>

\* get_stats, lines 439-442
StatsHit ==
    /\ app.pc = "caching"
    /\ app.request = None
    /\ app.cache[StatsKey] # None
    /\ app' = [app EXCEPT !.answer = app.cache[StatsKey]]
    /\ UNCHANGED <<crawlVars, call, store, task>>

\* lines 445-462
StatsQuery ==
    /\ app.pc = "caching"
    /\ app.request = None
    /\ app.cache[StatsKey] = None
    /\ app' = [app EXCEPT !.request = Some([key |-> StatsKey, value |-> app.articles])]
    /\ UNCHANGED <<crawlVars, call, store, task>>

\* lines 345-348 and 465-467: the result of the query is cached and returned
CacheSet ==
    /\ app.pc = "caching"
    /\ app.request # None
    /\ app' = [app EXCEPT !.cache[app.request[1].key] = Some(app.request[1].value),
                          !.answer = Some(app.request[1].value),
                          !.request = None]
    /\ UNCHANGED <<crawlVars, call, store, task>>

\* cache_service.set, line 52: SETEX, the key expires after its ttl
CacheExpire(k) ==
    /\ app.pc = "caching"
    /\ app.cache[k] # None
    /\ app' = [app EXCEPT !.cache[k] = None]
    /\ UNCHANGED <<crawlVars, call, store, task>>

\* scrape_url_task, line 175: the commit that ends a job which added
\* new_articles rows
JobCommit(new_articles) ==
    /\ app.pc = "caching"
    /\ app.job = "idle"
    /\ app.articles + new_articles <= MaxTable
    /\ app' = [app EXCEPT !.articles = @ + new_articles,
                          !.new_articles = new_articles,
                          !.job = "committed"]
    /\ UNCHANGED <<crawlVars, call, store, task>>

\* lines 178-179
JobInvalidate ==
    /\ app.pc = "caching"
    /\ app.job = "committed"
    /\ app' = [app EXCEPT !.cache = IF app.new_articles > 0
                                    THEN InvalidateArticlesCache(app.cache)
                                    ELSE app.cache,
                          !.job = "invalidated"]
    /\ UNCHANGED <<crawlVars, call, store, task>>

\* lines 181-189
JobReturn ==
    /\ app.pc = "caching"
    /\ app.job = "invalidated"
    /\ app' = [app EXCEPT !.job = "idle"]
    /\ UNCHANGED <<crawlVars, call, store, task>>

InitCache ==
    /\ site = [u \in URLs |-> ErrorPage]
    /\ InitCrawl
    /\ call = NoCall
    /\ store = NoStore
    /\ task = NoTask
    /\ app = [pc |-> "caching", articles |-> 0, new_articles |-> 0, job |-> "idle",
              cache |-> [k \in CacheKeys |-> None], request |-> None, answer |-> None]

NextCache ==
    \/ SearchHit
    \/ SearchQuery
    \/ StatsHit
    \/ StatsQuery
    \/ CacheSet
    \/ \E k \in CacheKeys : CacheExpire(k)
    \/ \E new_articles \in 0..1 : JobCommit(new_articles)
    \/ JobInvalidate
    \/ JobReturn

SpecCache == InitCache /\ [][NextCache]_vars

\* a read of key k is answered from the cache
ServedFromCache(k) ==
    IF k = StatsKey THEN app.cache[k] # None ELSE NonEmpty(app.cache[k])

\* every read that the cache answers gives the current table
CacheIsCurrent ==
    \A k \in CacheKeys : ServedFromCache(k) => app.cache[k][1] = app.articles

\* C29: the invalidation that ends a job which stored a new article leaves
\* no entry, of search results or of the statistics, from which a read would
\* be answered with an older table
C29_NoStaleEntryAfterJob ==
    [][(app.pc = "caching" /\ app.job = "committed" /\ app.new_articles > 0
           /\ app'.job = "invalidated") => CacheIsCurrent']_vars

----------------------------------------------------------------------------
(* The status of the job row of one run of scrape_url_task                  *)

TerminalStatuses == {"completed", "failed"}

\* the task has left its function: by the return of line 200 or by an
\* exception that its handler did not contain
TaskEnded == task.pc \in {"failed", "crashed"}

\* C30: once the task has ended, the row of its job holds a terminal status,
\* completed or failed
C30_JobEndsTerminal ==
    TaskEnded => task.job_db \in TerminalStatuses

============================================================================
